---- MODULE Spec2Model ----
(***************************************************************************)
(* A model of the Unicode transcoding engine of c89str (src/c89str.h).     *)
(*                                                                         *)
(* Every transcoding function is an operator that takes the memory the     *)
(* source pointer points into, the length argument and the flags, and      *)
(* gives back what the C function hands to its caller: the result code,    *)
(* *pOutLen, *pSrcLenProcessed, and for a convert function the units it    *)
(* stored through the destination pointer.                                 *)
(*                                                                         *)
(* size_t values are kept as their representative nearest to zero modulo   *)
(* 2^64: (size_t)-1 is -1, and a capacity that is decremented below zero   *)
(* is a negative number that compares as a huge unsigned one (SzLt).       *)
(***************************************************************************)
EXTENDS Integers, Sequences, FiniteSets, TLC

\* ------------------------------------------------------------------------
\* Result codes and flags
\* ------------------------------------------------------------------------
C89STR_SUCCESS == 0
C89STR_END == 1
C89STR_EBOM == -16384
C89STR_ECODEPOINT == -16385
EINVAL == 22
ENOMEM == 12

C89STR_UNICODE_MAX_CODE_POINT == 1114111
C89STR_UNICODE_REPLACEMENT_CODE_POINT == 65533
C89STR_UNICODE_REPLACEMENT_CODE_POINT_LENGTH_UTF16 == 1

C89STR_FORBID_BOM == 2
C89STR_ERROR_ON_INVALID_CODE_POINT == 4

\* (flags & bit) != 0, for a bit that is a power of two
HasFlag(flags, bit) == (flags \div bit) % 2 = 1
\* flags | bit
OrFlag(flags, bit) == IF HasFlag(flags, bit) THEN flags ELSE flags + bit

\* (size_t)-1, the "null terminated" length
NT == -1

\* a < b on size_t: a negative representative is 2^64 - |a|
SzLt(a, b) ==
    IF (a >= 0) = (b >= 0) THEN a < b ELSE a >= 0

Top(t, k) == IF k + 1 > t THEN k + 1 ELSE t

\* The unit at 0-based index k of the memory (zero outside the modelled
\* memory; a walk that leaves the modelled memory is cut off as a fault).
Rd(mem, k) == IF k + 1 \in DOMAIN mem THEN mem[k + 1] ELSE 0

\* What a call hands back.  term: "ret" the call returned; "fault" the walk
\* left the modelled memory; "loop" the call never returns.
\* top: 1 + the highest source index read.  out: the units stored through the
\* destination pointer, in index order from 0; nul: the terminator was stored
\* at index Len(out).  pset: the call stored `processed` through its
\* pointer (FALSE: the caller's variable is left as it was).
Ret(res, outLen, processed, top) ==
    [term |-> "ret", res |-> res, outLen |-> outLen, processed |-> processed,
     pset |-> TRUE, top |-> top, out |-> << >>, nul |-> FALSE]

RetC(res, outLen, processed, top, out, nul) ==
    [term |-> "ret", res |-> res, outLen |-> outLen, processed |-> processed,
     pset |-> TRUE, top |-> top, out |-> out, nul |-> nul]

Fault(top, out) ==
    [term |-> "fault", res |-> C89STR_SUCCESS, outLen |-> 0, processed |-> 0,
     pset |-> FALSE, top |-> top, out |-> out, nul |-> FALSE]

NoReturn ==
    [term |-> "loop", res |-> C89STR_SUCCESS, outLen |-> 0, processed |-> 0,
     pset |-> FALSE, top |-> 0, out |-> << >>, nul |-> FALSE]

\* A return that leaves *pLenProcessed alone
RetKeep(res, top) == [Ret(res, 0, 0, top) EXCEPT !.pset = FALSE]

\* r, with the reads up to `top` that came before it
WithTop(r, top) == [r EXCEPT !.top = IF top > @ THEN top ELSE @]

\* ------------------------------------------------------------------------
\* Byte order
\* ------------------------------------------------------------------------
c89str_swap_endian_uint16(n) == (n % 256) * 256 + (n \div 256)

\* A 32-bit unit is kept as the 32-bit two's-complement integer with the same
\* bits, so that a unit of 2^31 and more is a negative number.  Byte32(n, k)
\* is its byte k (0 the least significant) and Make32 puts four bytes
\* together.
Byte32(n, k) ==
    IF k = 0 THEN n % 256
    ELSE IF k = 1 THEN (n \div 256) % 256
    ELSE IF k = 2 THEN (n \div 65536) % 256
    ELSE (n \div 16777216) % 256

Make32(b3, b2, b1, b0) ==
    (IF b3 >= 128 THEN b3 - 256 ELSE b3) * 16777216 + b2 * 65536 + b1 * 256 + b0

\* a <= k on 32-bit unsigned values, for a constant k below 2^31
ULe(a, k) == a >= 0 /\ a <= k

c89str_swap_endian_uint32(n) ==
    Make32(Byte32(n, 0), Byte32(n, 1), Byte32(n, 2), Byte32(n, 3))

c89str_le2host_16(hostLE, n) == IF ~hostLE THEN c89str_swap_endian_uint16(n) ELSE n
c89str_be2host_16(hostLE, n) == IF hostLE THEN c89str_swap_endian_uint16(n) ELSE n
c89str_le2host_32(hostLE, n) == IF ~hostLE THEN c89str_swap_endian_uint32(n) ELSE n
c89str_be2host_32(hostLE, n) == IF hostLE THEN c89str_swap_endian_uint32(n) ELSE n
c89str_host2le_16(hostLE, n) == IF ~hostLE THEN c89str_swap_endian_uint16(n) ELSE n
c89str_host2be_16(hostLE, n) == IF hostLE THEN c89str_swap_endian_uint16(n) ELSE n
c89str_host2le_32(hostLE, n) == IF ~hostLE THEN c89str_swap_endian_uint32(n) ELSE n
c89str_host2be_32(hostLE, n) == IF hostLE THEN c89str_swap_endian_uint32(n) ELSE n

\* The bytes of a 16-bit / 32-bit unit as they lie in the host's memory
Bytes16(hostLE, u) ==
    IF hostLE THEN << u % 256, u \div 256 >> ELSE << u \div 256, u % 256 >>

Bytes32(hostLE, u) ==
    IF hostLE THEN << Byte32(u, 0), Byte32(u, 1), Byte32(u, 2), Byte32(u, 3) >>
    ELSE << Byte32(u, 3), Byte32(u, 2), Byte32(u, 1), Byte32(u, 0) >>

\* ------------------------------------------------------------------------
\* Code point primitives
\* ------------------------------------------------------------------------
c89str_is_invalid_utf8_octet(utf8) == utf8 = 192 \/ utf8 = 193 \/ utf8 >= 245

c89str_utf32_cp_to_utf16_pair(utf32cp) ==
    LET u == utf32cp - 65536
    IN  << 55296 + ((u % 1048576) \div 1024), 56320 + (u % 1024) >>

c89str_utf16_pair_to_utf32_cp(p0, p1) ==
    ((p0 % 1024) * 1024 + (p1 % 1024)) + 65536

c89str_is_cp_in_surrogate_pair_range(utf32) == utf32 >= 55296 /\ ULe(utf32, 57343)

c89str_is_valid_code_point(utf32) ==
    ULe(utf32, C89STR_UNICODE_MAX_CODE_POINT) /\ ~c89str_is_cp_in_surrogate_pair_range(utf32)

c89str_utf32_cp_to_utf8_len(utf32) ==
    IF ULe(utf32, 127) THEN 1
    ELSE IF ULe(utf32, 2047) THEN 2
    ELSE IF ULe(utf32, 65535) THEN 3
    ELSE IF ULe(utf32, 1114111) THEN 4
    ELSE 0

\* c89str_utf32_cp_to_utf8 with the mask of the second byte of a four-byte
\* sequence written 0x00F000 instead of 0x03F000
c89str_utf32_cp_to_utf8_narrow_mask(utf32, utf8Cap) ==
    IF ULe(utf32, 127) /\ ~SzLt(utf8Cap, 1) THEN << utf32 % 128 >>
    ELSE IF ULe(utf32, 2047) /\ ~SzLt(utf8Cap, 2) THEN
        << 192 + ((utf32 % 2048) \div 64), 128 + (utf32 % 64) >>
    ELSE IF ULe(utf32, 65535) /\ ~SzLt(utf8Cap, 3) THEN
        << 224 + ((utf32 % 65536) \div 4096), 128 + ((utf32 % 4096) \div 64),
           128 + (utf32 % 64) >>
    ELSE IF ULe(utf32, 1114111) /\ ~SzLt(utf8Cap, 4) THEN
        << 240 + ((utf32 % 2097152) \div 262144), 128 + ((utf32 % 65536) \div 4096),
           128 + ((utf32 % 4096) \div 64), 128 + (utf32 % 64) >>
    ELSE << >>

\* The bytes stored for utf32 when utf8Cap units are left; << >> (return 0,
\* nothing stored) when they do not fit.
c89str_utf32_cp_to_utf8(utf32, utf8Cap) ==
    IF ULe(utf32, 127) /\ ~SzLt(utf8Cap, 1) THEN << utf32 % 128 >>
    ELSE IF ULe(utf32, 2047) /\ ~SzLt(utf8Cap, 2) THEN
        << 192 + ((utf32 % 2048) \div 64), 128 + (utf32 % 64) >>
    ELSE IF ULe(utf32, 65535) /\ ~SzLt(utf8Cap, 3) THEN
        << 224 + ((utf32 % 65536) \div 4096), 128 + ((utf32 % 4096) \div 64),
           128 + (utf32 % 64) >>
    ELSE IF ULe(utf32, 1114111) /\ ~SzLt(utf8Cap, 4) THEN
        << 240 + ((utf32 % 2097152) \div 262144), 128 + ((utf32 % 262144) \div 4096),
           128 + ((utf32 % 4096) \div 64), 128 + (utf32 % 64) >>
    ELSE << >>

c89str_utf32_cp_to_utf16_len(utf32) == IF ULe(utf32, 65535) THEN 1 ELSE 2

c89str_utf32_cp_to_utf16(utf32, utf16Cap) ==
    IF ULe(utf32, 65535) THEN
        IF ~SzLt(utf16Cap, 1) THEN << utf32 >> ELSE << >>
    ELSE
        IF ~SzLt(utf16Cap, 2) THEN c89str_utf32_cp_to_utf16_pair(utf32) ELSE << >>

\* ------------------------------------------------------------------------
\* Byte-order marks
\* ------------------------------------------------------------------------
c89str_utf16_is_bom_le(bom) == bom[1] = 255 /\ bom[2] = 254
c89str_utf16_is_bom_be(bom) == bom[1] = 254 /\ bom[2] = 255
c89str_utf32_is_bom_le(bom) == bom[1] = 255 /\ bom[2] = 254 /\ bom[3] = 0 /\ bom[4] = 0
c89str_utf32_is_bom_be(bom) == bom[1] = 0 /\ bom[2] = 0 /\ bom[3] = 254 /\ bom[4] = 255

\* pBytes (the unit at index p of mem) is never NULL here; len is the
\* caller's length argument, a count of code units
c89str_utf8_has_bom(mem, p, len) ==
    IF SzLt(len, 3) THEN FALSE
    ELSE Rd(mem, p) = 239 /\ Rd(mem, p + 1) = 187 /\ Rd(mem, p + 2) = 191

c89str_utf16_has_bom(hostLE, mem, p, len) ==
    IF SzLt(len, 2) THEN FALSE
    ELSE c89str_utf16_is_bom_le(Bytes16(hostLE, Rd(mem, p)))
            \/ c89str_utf16_is_bom_be(Bytes16(hostLE, Rd(mem, p)))

c89str_utf32_has_bom(hostLE, mem, p, len) ==
    IF SzLt(len, 4) THEN FALSE
    ELSE c89str_utf32_is_bom_le(Bytes32(hostLE, Rd(mem, p)))
            \/ c89str_utf32_is_bom_be(Bytes32(hostLE, Rd(mem, p)))

\* 1 + the highest index c89str_utf8_has_bom reads (it stops at the first
\* byte that differs)
Utf8BomTop(mem, p, len) ==
    IF SzLt(len, 3) THEN 0
    ELSE IF Rd(mem, p) # 239 THEN p + 1
    ELSE IF Rd(mem, p + 1) # 187 THEN p + 2
    ELSE p + 3

\* ------------------------------------------------------------------------
\* UTF-8 source
\* ------------------------------------------------------------------------
\* (c & 0xE0) == 0xC0, (c & 0xF0) == 0xE0, (c & 0xF8) == 0xF0
IsLead2(c) == c \div 32 = 6
IsLead3(c) == c \div 16 = 14
IsLead4(c) == c \div 8 = 30

\* The least j in 1..k with a zero unit at index q + j, or 0 when there is
\* none: where "p[1] == 0 || ... || p[k] == 0" stops reading.
FirstZero(mem, q, k) ==
    IF \E j \in 1..k : Rd(mem, q + j) = 0
    THEN CHOOSE j \in 1..k : Rd(mem, q + j) = 0 /\ \A h \in 1..(j - 1) : Rd(mem, q + h) # 0
    ELSE 0

Decode2(c0, c1) == (c0 % 32) * 64 + (c1 % 64)
Decode3(c0, c1, c2) == (c0 % 16) * 4096 + (c1 % 64) * 64 + (c2 % 64)
Decode4(c0, c1, c2, c3) == (c0 % 8) * 262144 + (c1 % 64) * 4096 + (c2 % 64) * 64 + (c3 % 64)

\* The loops of c89str_utf8_to_utf16_len.  b: index of pUTF8 after the BOM
\* check; i: pUTF8 - pUTF8Original, resp. iUTF8.
RECURSIVE utf8_to_utf16_len_walk(_, _, _, _, _, _, _)
utf8_to_utf16_len_walk(mem, b, utf8Len, flags, i, utf16Len, top) ==
    LET q == b + i
        c0 == Rd(mem, q)
        strict == HasFlag(flags, C89STR_ERROR_ON_INVALID_CODE_POINT)
        repl == C89STR_UNICODE_REPLACEMENT_CODE_POINT_LENGTH_UTF16
        t0 == Top(top, q)
    IN
    IF utf8Len = NT THEN
        \* Null terminated string.
        IF q >= Len(mem) THEN Fault(top, << >>)
        ELSE IF c0 = 0 THEN Ret(C89STR_SUCCESS, utf16Len, i, t0)
        ELSE IF c0 < 128 THEN
            utf8_to_utf16_len_walk(mem, b, utf8Len, flags, i + 1, utf16Len + 1, t0)
        ELSE IF c89str_is_invalid_utf8_octet(c0) THEN
            IF strict THEN Ret(C89STR_ECODEPOINT, utf16Len, i, t0)
            ELSE utf8_to_utf16_len_walk(mem, b, utf8Len, flags, i + 1, utf16Len + repl, t0)
        ELSE IF IsLead2(c0) THEN
            IF Rd(mem, q + 1) = 0 THEN Ret(EINVAL, utf16Len, i, Top(t0, q + 1))
            ELSE utf8_to_utf16_len_walk(mem, b, utf8Len, flags, i + 2, utf16Len + 1, Top(t0, q + 1))
        ELSE IF IsLead3(c0) THEN
            IF FirstZero(mem, q, 2) # 0
            THEN Ret(EINVAL, utf16Len, i, Top(t0, q + FirstZero(mem, q, 2)))
            ELSE utf8_to_utf16_len_walk(mem, b, utf8Len, flags, i + 3, utf16Len + 1, Top(t0, q + 2))
        ELSE IF IsLead4(c0) THEN
            IF FirstZero(mem, q, 3) # 0
            THEN Ret(EINVAL, utf16Len, i, Top(t0, q + FirstZero(mem, q, 3)))
            ELSE
                LET cp == Decode4(c0, Rd(mem, q + 1), Rd(mem, q + 2), Rd(mem, q + 3))
                IN  IF ~c89str_is_valid_code_point(cp) THEN
                        IF strict THEN Ret(C89STR_ECODEPOINT, utf16Len, i, Top(t0, q + 3))
                        ELSE utf8_to_utf16_len_walk(mem, b, utf8Len, flags, i + 4,
                                                    utf16Len + repl, Top(t0, q + 3))
                    ELSE utf8_to_utf16_len_walk(mem, b, utf8Len, flags, i + 4,
                                                utf16Len + 2, Top(t0, q + 3))
        ELSE
            IF strict THEN Ret(C89STR_ECODEPOINT, utf16Len, i, t0)
            ELSE utf8_to_utf16_len_walk(mem, b, utf8Len, flags, i + 1, utf16Len + repl, t0)
    ELSE
        \* Fixed length string.
        IF ~SzLt(i, utf8Len) THEN Ret(C89STR_SUCCESS, utf16Len, i, top)
        ELSE IF q >= Len(mem) THEN Fault(top, << >>)
        ELSE IF c0 < 128 THEN
            utf8_to_utf16_len_walk(mem, b, utf8Len, flags, i + 1, utf16Len + 1, t0)
        ELSE IF c89str_is_invalid_utf8_octet(c0) THEN
            IF strict THEN Ret(C89STR_ECODEPOINT, utf16Len, i, t0)
            ELSE utf8_to_utf16_len_walk(mem, b, utf8Len, flags, i + 1, utf16Len + repl, t0)
        ELSE IF IsLead2(c0) THEN
            IF SzLt(utf8Len, i + 1) THEN Ret(EINVAL, utf16Len, i, t0)
            ELSE utf8_to_utf16_len_walk(mem, b, utf8Len, flags, i + 2, utf16Len + 1, t0)
        ELSE IF IsLead3(c0) THEN
            IF SzLt(utf8Len, i + 2) THEN Ret(EINVAL, utf16Len, i, t0)
            ELSE utf8_to_utf16_len_walk(mem, b, utf8Len, flags, i + 3, utf16Len + 1, t0)
        ELSE IF IsLead4(c0) THEN
            \* "return EINVAL": the out parameters keep the zeros stored on entry
            IF SzLt(utf8Len, i + 3) THEN Ret(EINVAL, 0, 0, t0)
            ELSE
                \* the code point is read from pUTF8[0..3], not pUTF8[iUTF8+0..3]
                LET cp == Decode4(Rd(mem, b), Rd(mem, b + 1), Rd(mem, b + 2), Rd(mem, b + 3))
                IN  IF ~c89str_is_valid_code_point(cp) THEN
                        IF strict THEN Ret(C89STR_ECODEPOINT, utf16Len, i, Top(t0, b + 3))
                        ELSE utf8_to_utf16_len_walk(mem, b, utf8Len, flags, i + 4,
                                                    utf16Len + repl, Top(t0, b + 3))
                    ELSE utf8_to_utf16_len_walk(mem, b, utf8Len, flags, i + 4,
                                                utf16Len + 2, Top(t0, b + 3))
        ELSE
            IF strict THEN Ret(C89STR_ECODEPOINT, utf16Len, i, t0)
            ELSE utf8_to_utf16_len_walk(mem, b, utf8Len, flags, i + 1, utf16Len + repl, t0)

c89str_utf8_to_utf16_len(mem, p, utf8Len, flags) ==
    IF utf8Len = 0 THEN Ret(C89STR_SUCCESS, 0, 0, 0)
    ELSE IF Rd(mem, p) = 0 THEN Ret(C89STR_SUCCESS, 0, 0, p + 1)
    ELSE IF c89str_utf8_has_bom(mem, p, utf8Len) THEN
        IF HasFlag(flags, C89STR_FORBID_BOM) THEN Ret(C89STR_EBOM, 0, 0, p + 3)
        ELSE utf8_to_utf16_len_walk(mem, p + 3, IF utf8Len # NT THEN utf8Len - 3 ELSE utf8Len,
                                    flags, 0, 0, p + 3)
    ELSE utf8_to_utf16_len_walk(mem, p, utf8Len, flags, 0, 0,
                                Top(p + 1, Utf8BomTop(mem, p, utf8Len) - 1))

\* The "Null terminate." tail shared by the convert functions: cap is what
\* is left of the capacity, out the units stored so far.
Terminate(result, capOriginal, cap, processed, top, out) ==
    RetC(IF cap = 0 THEN ENOMEM ELSE result, capOriginal - cap, processed, top, out, cap # 0)

\* The loops of c89str_utf8_to_utf16ne.  A break leaves the loop with `result`
\* and goes on to the tail.
RECURSIVE utf8_to_utf16ne_walk(_, _, _, _, _, _, _, _, _)
utf8_to_utf16ne_walk(mem, b, utf8Len, flags, i, utf16CapOriginal, utf16Cap, out, top) ==
    LET q == b + i
        c0 == Rd(mem, q)
        strict == HasFlag(flags, C89STR_ERROR_ON_INVALID_CODE_POINT)
        t0 == Top(top, q)
        break(result, t) == Terminate(result, utf16CapOriginal, utf16Cap, i, t, out)
        next(n, units, t) ==
            utf8_to_utf16ne_walk(mem, b, utf8Len, flags, i + n, utf16CapOriginal,
                                 utf16Cap - Len(units), out \o units, t)
        replace == << C89STR_UNICODE_REPLACEMENT_CODE_POINT >>
    IN
    IF utf8Len = NT THEN
        IF q >= Len(mem) THEN Fault(top, out)
        ELSE IF c0 = 0 THEN break(C89STR_SUCCESS, t0)
        ELSE IF utf16Cap = 1 THEN break(ENOMEM, t0)
        ELSE IF c0 < 128 THEN next(1, << c0 >>, t0)
        ELSE IF c89str_is_invalid_utf8_octet(c0) THEN
            IF strict THEN break(C89STR_ECODEPOINT, t0) ELSE next(1, replace, t0)
        ELSE IF IsLead2(c0) THEN
            IF Rd(mem, q + 1) = 0 THEN break(EINVAL, Top(t0, q + 1))
            ELSE next(2, << Decode2(c0, Rd(mem, q + 1)) >>, Top(t0, q + 1))
        ELSE IF IsLead3(c0) THEN
            IF FirstZero(mem, q, 2) # 0 THEN break(EINVAL, Top(t0, q + FirstZero(mem, q, 2)))
            ELSE next(3, << Decode3(c0, Rd(mem, q + 1), Rd(mem, q + 2)) >>, Top(t0, q + 2))
        ELSE IF IsLead4(c0) THEN
            IF SzLt(utf16Cap, 2) THEN break(C89STR_SUCCESS, t0)
            ELSE IF FirstZero(mem, q, 3) # 0
            THEN break(EINVAL, Top(t0, q + FirstZero(mem, q, 3)))
            ELSE
                LET cp == Decode4(c0, Rd(mem, q + 1), Rd(mem, q + 2), Rd(mem, q + 3))
                IN  IF ~c89str_is_valid_code_point(cp) THEN
                        IF strict THEN break(C89STR_ECODEPOINT, Top(t0, q + 3))
                        ELSE next(4, replace, Top(t0, q + 3))
                    ELSE next(4, c89str_utf32_cp_to_utf16_pair(cp), Top(t0, q + 3))
        ELSE
            IF strict THEN break(C89STR_ECODEPOINT, t0) ELSE next(1, replace, t0)
    ELSE
        IF ~SzLt(i, utf8Len) THEN break(C89STR_SUCCESS, top)
        ELSE IF utf16Cap = 1 THEN break(ENOMEM, top)
        ELSE IF q >= Len(mem) THEN Fault(top, out)
        ELSE IF c0 < 128 THEN next(1, << c0 >>, t0)
        ELSE IF c89str_is_invalid_utf8_octet(c0) THEN
            IF strict THEN break(C89STR_ECODEPOINT, t0) ELSE next(1, replace, t0)
        ELSE IF IsLead2(c0) THEN
            IF SzLt(utf8Len, i + 1) THEN break(EINVAL, t0)
            ELSE next(2, << Decode2(c0, Rd(mem, q + 1)) >>, Top(t0, q + 1))
        ELSE IF IsLead3(c0) THEN
            IF SzLt(utf8Len, i + 2) THEN break(EINVAL, t0)
            ELSE next(3, << Decode3(c0, Rd(mem, q + 1), Rd(mem, q + 2)) >>, Top(t0, q + 2))
        ELSE IF IsLead4(c0) THEN
            IF SzLt(utf16Cap, 2) THEN break(C89STR_SUCCESS, t0)
            ELSE IF SzLt(utf8Len, i + 3) THEN break(EINVAL, t0)
            ELSE
                LET cp == Decode4(c0, Rd(mem, q + 1), Rd(mem, q + 2), Rd(mem, q + 3))
                IN  IF ~c89str_is_valid_code_point(cp) THEN
                        IF strict THEN break(C89STR_ECODEPOINT, Top(t0, q + 3))
                        ELSE next(4, replace, Top(t0, q + 3))
                    ELSE next(4, c89str_utf32_cp_to_utf16_pair(cp), Top(t0, q + 3))
        ELSE
            IF strict THEN break(C89STR_ECODEPOINT, t0) ELSE next(1, replace, t0)

\* dstNull: pUTF16 == NULL
c89str_utf8_to_utf16ne(dstNull, utf16Cap, mem, p, utf8Len, flags) ==
    IF dstNull THEN c89str_utf8_to_utf16_len(mem, p, utf8Len, flags)
    ELSE IF c89str_utf8_has_bom(mem, p, utf8Len) THEN
        IF HasFlag(flags, C89STR_FORBID_BOM) THEN Ret(C89STR_EBOM, 0, 0, p + 3)
        ELSE utf8_to_utf16ne_walk(mem, p + 3, IF utf8Len # NT THEN utf8Len - 3 ELSE utf8Len,
                                  flags, 0, utf16Cap, utf16Cap, << >>, p + 3)
    ELSE utf8_to_utf16ne_walk(mem, p, utf8Len, flags, 0, utf16Cap, utf16Cap, << >>,
                              Utf8BomTop(mem, p, utf8Len))

\* The loops of c89str_utf8_to_utf32_len.  utf32Len is incremented at the
\* top of each iteration, before the sequence is examined.
RECURSIVE utf8_to_utf32_len_walk(_, _, _, _, _, _, _)
utf8_to_utf32_len_walk(mem, b, utf8Len, flags, i, utf32Len, top) ==
    LET q == b + i
        c0 == Rd(mem, q)
        strict == HasFlag(flags, C89STR_ERROR_ON_INVALID_CODE_POINT)
        t0 == Top(top, q)
        n1 == utf32Len + 1
        next(n, t) == utf8_to_utf32_len_walk(mem, b, utf8Len, flags, i + n, n1, t)
    IN
    IF utf8Len = NT THEN
        IF q >= Len(mem) THEN Fault(top, << >>)
        ELSE IF c0 = 0 THEN Ret(C89STR_SUCCESS, utf32Len, i, t0)
        ELSE IF c0 < 128 THEN next(1, t0)
        ELSE IF c89str_is_invalid_utf8_octet(c0) THEN
            IF strict THEN Ret(C89STR_ECODEPOINT, n1, i, t0) ELSE next(1, t0)
        ELSE IF IsLead2(c0) THEN
            IF Rd(mem, q + 1) = 0 THEN Ret(EINVAL, n1, i, Top(t0, q + 1))
            ELSE next(2, Top(t0, q + 1))
        ELSE IF IsLead3(c0) THEN
            IF FirstZero(mem, q, 2) # 0
            THEN Ret(EINVAL, n1, i, Top(t0, q + FirstZero(mem, q, 2)))
            ELSE next(3, Top(t0, q + 2))
        ELSE IF IsLead4(c0) THEN
            IF FirstZero(mem, q, 3) # 0
            THEN Ret(EINVAL, n1, i, Top(t0, q + FirstZero(mem, q, 3)))
            ELSE
                LET cp == Decode4(c0, Rd(mem, q + 1), Rd(mem, q + 2), Rd(mem, q + 3))
                IN  IF ~c89str_is_valid_code_point(cp) /\ strict
                    THEN Ret(C89STR_ECODEPOINT, n1, i, Top(t0, q + 3))
                    ELSE next(4, Top(t0, q + 3))
        ELSE
            IF strict THEN Ret(C89STR_ECODEPOINT, n1, i, t0) ELSE next(1, t0)
    ELSE
        IF ~SzLt(i, utf8Len) THEN Ret(C89STR_SUCCESS, utf32Len, i, top)
        ELSE IF q >= Len(mem) THEN Fault(top, << >>)
        ELSE IF c0 < 128 THEN next(1, t0)
        ELSE IF c89str_is_invalid_utf8_octet(c0) THEN
            IF strict THEN Ret(C89STR_ECODEPOINT, n1, i, t0) ELSE next(1, t0)
        ELSE IF IsLead2(c0) THEN
            IF ~SzLt(i + 1, utf8Len) THEN Ret(EINVAL, n1, i, t0) ELSE next(2, t0)
        ELSE IF IsLead3(c0) THEN
            IF ~SzLt(i + 2, utf8Len) THEN Ret(EINVAL, n1, i, t0) ELSE next(3, t0)
        ELSE IF IsLead4(c0) THEN
            IF ~SzLt(i + 3, utf8Len) THEN Ret(EINVAL, n1, i, t0)
            ELSE
                \* the code point is read from pUTF8[0..3], not pUTF8[iUTF8..]
                LET cp == Decode4(Rd(mem, b), Rd(mem, b + 1), Rd(mem, b + 2), Rd(mem, b + 3))
                IN  IF ~c89str_is_valid_code_point(cp) /\ strict
                    THEN Ret(C89STR_ECODEPOINT, n1, i, Top(t0, b + 3))
                    ELSE next(4, Top(t0, b + 3))
        ELSE
            IF strict THEN Ret(C89STR_ECODEPOINT, n1, i, t0) ELSE next(1, t0)

c89str_utf8_to_utf32_len(mem, p, utf8Len, flags) ==
    IF utf8Len = 0 THEN Ret(C89STR_SUCCESS, 0, 0, 0)
    ELSE IF Rd(mem, p) = 0 THEN Ret(C89STR_SUCCESS, 0, 0, p + 1)
    ELSE IF c89str_utf8_has_bom(mem, p, utf8Len) THEN
        IF HasFlag(flags, C89STR_FORBID_BOM) THEN Ret(C89STR_EBOM, 0, 0, p + 3)
        ELSE utf8_to_utf32_len_walk(mem, p + 3, IF utf8Len # NT THEN utf8Len - 3 ELSE utf8Len,
                                    flags, 0, 0, p + 3)
    ELSE utf8_to_utf32_len_walk(mem, p, utf8Len, flags, 0, 0,
                                Top(p + 1, Utf8BomTop(mem, p, utf8Len) - 1))

\* The loops of c89str_utf8_to_utf32ne.  The four-byte case advances the
\* source before it validates the code point; the output pointer and the
\* capacity move only at the end of an iteration that did not break.
RECURSIVE utf8_to_utf32ne_walk(_, _, _, _, _, _, _, _, _)
utf8_to_utf32ne_walk(mem, b, utf8Len, flags, i, utf32CapOriginal, utf32Cap, out, top) ==
    LET q == b + i
        c0 == Rd(mem, q)
        strict == HasFlag(flags, C89STR_ERROR_ON_INVALID_CODE_POINT)
        t0 == Top(top, q)
        break(result, n, t) == Terminate(result, utf32CapOriginal, utf32Cap, i + n, t, out)
        next(n, unit, t) ==
            utf8_to_utf32ne_walk(mem, b, utf8Len, flags, i + n, utf32CapOriginal,
                                 utf32Cap - 1, Append(out, unit), t)
        replace == C89STR_UNICODE_REPLACEMENT_CODE_POINT
        four ==
            LET cp == Decode4(c0, Rd(mem, q + 1), Rd(mem, q + 2), Rd(mem, q + 3))
            IN  IF ~c89str_is_valid_code_point(cp) THEN
                    IF strict THEN break(C89STR_ECODEPOINT, 4, Top(t0, q + 3))
                    ELSE next(4, replace, Top(t0, q + 3))
                ELSE next(4, cp, Top(t0, q + 3))
    IN
    IF utf8Len = NT THEN
        IF q >= Len(mem) THEN Fault(top, out)
        ELSE IF c0 = 0 THEN break(C89STR_SUCCESS, 0, t0)
        ELSE IF utf32Cap = 0 THEN break(ENOMEM, 0, t0)
        ELSE IF c0 < 128 THEN next(1, c0, t0)
        ELSE IF c89str_is_invalid_utf8_octet(c0) THEN
            IF strict THEN break(C89STR_ECODEPOINT, 0, t0) ELSE next(1, replace, t0)
        ELSE IF IsLead2(c0) THEN
            IF Rd(mem, q + 1) = 0 THEN break(EINVAL, 0, Top(t0, q + 1))
            ELSE next(2, Decode2(c0, Rd(mem, q + 1)), Top(t0, q + 1))
        ELSE IF IsLead3(c0) THEN
            IF FirstZero(mem, q, 2) # 0
            THEN break(EINVAL, 0, Top(t0, q + FirstZero(mem, q, 2)))
            ELSE next(3, Decode3(c0, Rd(mem, q + 1), Rd(mem, q + 2)), Top(t0, q + 2))
        ELSE IF IsLead4(c0) THEN
            IF FirstZero(mem, q, 3) # 0
            THEN break(EINVAL, 0, Top(t0, q + FirstZero(mem, q, 3)))
            ELSE four
        ELSE
            IF strict THEN break(C89STR_ECODEPOINT, 0, t0) ELSE next(1, replace, t0)
    ELSE
        IF ~SzLt(i, utf8Len) THEN break(C89STR_SUCCESS, 0, top)
        ELSE IF utf32Cap = 0 THEN break(ENOMEM, 0, top)
        ELSE IF q >= Len(mem) THEN Fault(top, out)
        ELSE IF c0 < 128 THEN next(1, c0, t0)
        ELSE IF c89str_is_invalid_utf8_octet(c0) THEN
            IF strict THEN break(C89STR_ECODEPOINT, 0, t0) ELSE next(1, replace, t0)
        ELSE IF IsLead2(c0) THEN
            IF ~SzLt(i + 1, utf8Len) THEN break(EINVAL, 0, t0)
            ELSE next(2, Decode2(c0, Rd(mem, q + 1)), Top(t0, q + 1))
        ELSE IF IsLead3(c0) THEN
            IF ~SzLt(i + 2, utf8Len) THEN break(EINVAL, 0, t0)
            ELSE next(3, Decode3(c0, Rd(mem, q + 1), Rd(mem, q + 2)), Top(t0, q + 2))
        ELSE IF IsLead4(c0) THEN
            IF ~SzLt(i + 3, utf8Len) THEN break(EINVAL, 0, t0) ELSE four
        ELSE
            IF strict THEN break(C89STR_ECODEPOINT, 0, t0) ELSE next(1, replace, t0)

c89str_utf8_to_utf32ne(dstNull, utf32Cap, mem, p, utf8Len, flags) ==
    IF dstNull THEN c89str_utf8_to_utf32_len(mem, p, utf8Len, flags)
    ELSE IF c89str_utf8_has_bom(mem, p, utf8Len) THEN
        IF HasFlag(flags, C89STR_FORBID_BOM) THEN Ret(C89STR_EBOM, 0, 0, p + 3)
        ELSE utf8_to_utf32ne_walk(mem, p + 3, IF utf8Len # NT THEN utf8Len - 3 ELSE utf8Len,
                                  flags, 0, utf32Cap, utf32Cap, << >>, p + 3)
    ELSE utf8_to_utf32ne_walk(mem, p, utf8Len, flags, 0, utf32Cap, utf32Cap, << >>,
                              Utf8BomTop(mem, p, utf8Len))

\* ------------------------------------------------------------------------
\* UTF-16 source
\* ------------------------------------------------------------------------
\* 1 + the highest index c89str_utf16_has_bom / c89str_utf32_has_bom reads
HasBomTop(p, len, least) == IF SzLt(len, least) THEN 0 ELSE p + 1

\* One pass through the decoding part of the loop body, the same text in
\* c89str_utf16_to_utf8_len_internal, c89str_utf16_to_utf8_internal,
\* c89str_utf16_to_utf32_len_internal and c89str_utf16_to_utf32_internal.
\* q: index of the unit under the cursor; nt: the null terminated loop;
\* short: its "ran out of input" test (pUTF16[1] == 0, resp.
\* iUTF16+1 > utf16Len).  brk: the pass ended in a break with `result`;
\* otherwise utf32 is the code point and n the units consumed.  The pair is
\* put together from the units as they lie in memory.
Utf16Step(hostLE, isLE, mem, q, nt, short, flags, top) ==
    LET toHost(u) == IF isLE THEN c89str_le2host_16(hostLE, u) ELSE c89str_be2host_16(hostLE, u)
        w1 == toHost(Rd(mem, q))
        w2 == toHost(Rd(mem, q + 1))
        strict == HasFlag(flags, C89STR_ERROR_ON_INVALID_CODE_POINT)
        t0 == Top(top, q)
        t1 == Top(t0, q + 1)
        stop(result, t) == [brk |-> TRUE, result |-> result, utf32 |-> 0, n |-> 0, top |-> t]
        go(utf32, n, t) == [brk |-> FALSE, result |-> C89STR_SUCCESS, utf32 |-> utf32, n |-> n, top |-> t]
    IN
    IF w1 < 55296 \/ w1 > 57343 THEN go(w1, 1, t0)
    ELSE IF w1 >= 55296 /\ w1 <= 56319 THEN
        IF short THEN stop(EINVAL, IF nt THEN t1 ELSE t0)
        ELSE IF w2 >= 56320 /\ w2 <= 57343
        THEN go(c89str_utf16_pair_to_utf32_cp(Rd(mem, q), Rd(mem, q + 1)), 2, t1)
        ELSE IF strict THEN stop(C89STR_ECODEPOINT, t1)
        ELSE go(C89STR_UNICODE_REPLACEMENT_CODE_POINT, 2, t1)
    ELSE IF strict THEN stop(C89STR_ECODEPOINT, t0)
    ELSE go(C89STR_UNICODE_REPLACEMENT_CODE_POINT, 1, t0)

\* The loops of c89str_utf16_to_utf8_len_internal
RECURSIVE utf16_to_utf8_len_walk(_, _, _, _, _, _, _, _, _)
utf16_to_utf8_len_walk(hostLE, isLE, mem, b, utf16Len, flags, i, utf8Len, top) ==
    LET q == b + i
        nt == utf16Len = NT
        short == IF nt THEN Rd(mem, q + 1) = 0 ELSE SzLt(utf16Len, i + 1)
        st == Utf16Step(hostLE, isLE, mem, q, nt, short, flags, top)
    IN
    IF ~nt /\ ~SzLt(i, utf16Len) THEN Ret(C89STR_SUCCESS, utf8Len, i, top)
    ELSE IF q >= Len(mem) THEN Fault(top, << >>)
    ELSE IF nt /\ Rd(mem, q) = 0 THEN Ret(C89STR_SUCCESS, utf8Len, i, Top(top, q))
    ELSE IF st.brk THEN Ret(st.result, utf8Len, i, st.top)
    ELSE utf16_to_utf8_len_walk(hostLE, isLE, mem, b, utf16Len, flags, i + st.n,
                                utf8Len + c89str_utf32_cp_to_utf8_len(st.utf32), st.top)

c89str_utf16_to_utf8_len_internal(hostLE, mem, p, utf16Len, flags, isLE) ==
    IF utf16Len = 0 THEN Ret(C89STR_SUCCESS, 0, 0, 0)
    ELSE IF Rd(mem, p) = 0 THEN Ret(C89STR_SUCCESS, 0, 0, p + 1)
    ELSE IF c89str_utf16_has_bom(hostLE, mem, p, utf16Len) THEN
        IF HasFlag(flags, C89STR_FORBID_BOM) THEN Ret(C89STR_EBOM, 0, 0, p + 1)
        ELSE utf16_to_utf8_len_walk(hostLE, isLE, mem, p + 1,
                                    IF utf16Len # NT THEN utf16Len - 1 ELSE utf16Len,
                                    flags, 0, 0, p + 1)
    ELSE utf16_to_utf8_len_walk(hostLE, isLE, mem, p, utf16Len, flags, 0, 0, p + 1)

c89str_utf16le_to_utf8_len(hostLE, mem, p, utf16Len, flags) ==
    c89str_utf16_to_utf8_len_internal(hostLE, mem, p, utf16Len, flags, TRUE)

c89str_utf16be_to_utf8_len(hostLE, mem, p, utf16Len, flags) ==
    c89str_utf16_to_utf8_len_internal(hostLE, mem, p, utf16Len, flags, FALSE)

\* hostLE: c89str_is_little_endian()
c89str_utf16ne_to_utf8_len(hostLE, mem, p, utf16Len, flags) ==
    IF hostLE THEN c89str_utf16le_to_utf8_len(hostLE, mem, p, utf16Len, flags)
    ELSE c89str_utf16be_to_utf8_len(hostLE, mem, p, utf16Len, flags)

\* What the BOM branch of an "auto" function makes of the inner call's
\* report r: "+1 for BOM" on the units processed.
PlusBom(r, top) ==
    WithTop(IF r.term = "ret" THEN [r EXCEPT !.processed = @ + 1, !.pset = TRUE] ELSE r, top)

c89str_utf16_to_utf8_len(hostLE, mem, p, utf16Len, flags) ==
    IF c89str_utf16_has_bom(hostLE, mem, p, utf16Len) THEN
        IF HasFlag(flags, C89STR_FORBID_BOM) THEN RetKeep(C89STR_EBOM, p + 1)
        ELSE
            LET isLE == c89str_utf16_is_bom_le(Bytes16(hostLE, Rd(mem, p)))
                len1 == IF utf16Len # NT THEN utf16Len - 1 ELSE utf16Len
                forbid == OrFlag(flags, C89STR_FORBID_BOM)
            IN  PlusBom(IF isLE
                        THEN c89str_utf16le_to_utf8_len(hostLE, mem, (p + 1) + 1, len1 - 1, forbid)
                        ELSE c89str_utf16be_to_utf8_len(hostLE, mem, (p + 1) + 1, len1 - 1, forbid),
                        p + 1)
    ELSE WithTop(c89str_utf16ne_to_utf8_len(hostLE, mem, p, utf16Len, flags),
                 HasBomTop(p, utf16Len, 2))

\* The loops of c89str_utf16_to_utf8_internal.  The cursor has moved past the
\* code point when c89str_utf32_cp_to_utf8 finds no room for it.
RECURSIVE utf16_to_utf8_walk(_, _, _, _, _, _, _, _, _, _, _)
utf16_to_utf8_walk(hostLE, isLE, mem, b, utf16Len, flags, i, utf8CapOriginal, utf8Cap, out, top) ==
    LET q == b + i
        nt == utf16Len = NT
        short == IF nt THEN Rd(mem, q + 1) = 0 ELSE SzLt(utf16Len, i + 1)
        st == Utf16Step(hostLE, isLE, mem, q, nt, short, flags, top)
        bytes == c89str_utf32_cp_to_utf8(st.utf32, utf8Cap)
        break(result, n, t) == Terminate(result, utf8CapOriginal, utf8Cap, i + n, t, out)
    IN
    IF ~nt /\ ~SzLt(i, utf16Len) THEN break(C89STR_SUCCESS, 0, top)
    ELSE IF ~nt /\ utf8Cap = 0 THEN break(ENOMEM, 0, top)
    ELSE IF q >= Len(mem) THEN Fault(top, out)
    ELSE IF nt /\ Rd(mem, q) = 0 THEN break(C89STR_SUCCESS, 0, Top(top, q))
    ELSE IF utf8Cap = 0 THEN break(ENOMEM, 0, Top(top, q))
    ELSE IF st.brk THEN break(st.result, 0, st.top)
    ELSE IF bytes = << >> THEN break(ENOMEM, st.n, st.top)
    ELSE utf16_to_utf8_walk(hostLE, isLE, mem, b, utf16Len, flags, i + st.n, utf8CapOriginal,
                            utf8Cap - Len(bytes), out \o bytes, st.top)

c89str_utf16_to_utf8_internal(hostLE, dstNull, utf8Cap, mem, p, utf16Len, flags, isLE) ==
    IF dstNull THEN c89str_utf16_to_utf8_len_internal(hostLE, mem, p, utf16Len, flags, isLE)
    ELSE IF c89str_utf16_has_bom(hostLE, mem, p, utf16Len) THEN
        IF HasFlag(flags, C89STR_FORBID_BOM) THEN Ret(C89STR_EBOM, 0, 0, p + 1)
        ELSE utf16_to_utf8_walk(hostLE, isLE, mem, p + 1,
                                IF utf16Len # NT THEN utf16Len - 1 ELSE utf16Len,
                                flags, 0, utf8Cap, utf8Cap, << >>, p + 1)
    ELSE utf16_to_utf8_walk(hostLE, isLE, mem, p, utf16Len, flags, 0, utf8Cap, utf8Cap, << >>,
                            HasBomTop(p, utf16Len, 2))

c89str_utf16le_to_utf8(hostLE, dstNull, utf8Cap, mem, p, utf16Len, flags) ==
    c89str_utf16_to_utf8_internal(hostLE, dstNull, utf8Cap, mem, p, utf16Len, flags, TRUE)

c89str_utf16be_to_utf8(hostLE, dstNull, utf8Cap, mem, p, utf16Len, flags) ==
    c89str_utf16_to_utf8_internal(hostLE, dstNull, utf8Cap, mem, p, utf16Len, flags, FALSE)

c89str_utf16ne_to_utf8(hostLE, dstNull, utf8Cap, mem, p, utf16Len, flags) ==
    IF hostLE THEN c89str_utf16le_to_utf8(hostLE, dstNull, utf8Cap, mem, p, utf16Len, flags)
    ELSE c89str_utf16be_to_utf8(hostLE, dstNull, utf8Cap, mem, p, utf16Len, flags)

c89str_utf16_to_utf8(hostLE, dstNull, utf8Cap, mem, p, utf16Len, flags) ==
    IF dstNull THEN c89str_utf16_to_utf8_len(hostLE, mem, p, utf16Len, flags)
    ELSE IF c89str_utf16_has_bom(hostLE, mem, p, utf16Len) THEN
        IF HasFlag(flags, C89STR_FORBID_BOM) THEN RetKeep(C89STR_EBOM, p + 1)
        ELSE
            LET isLE == c89str_utf16_is_bom_le(Bytes16(hostLE, Rd(mem, p)))
                len1 == IF utf16Len # NT THEN utf16Len - 1 ELSE utf16Len
                forbid == OrFlag(flags, C89STR_FORBID_BOM)
            IN  PlusBom(IF isLE
                        THEN c89str_utf16le_to_utf8(hostLE, FALSE, utf8Cap, mem, (p + 1) + 1, len1 - 1, forbid)
                        ELSE c89str_utf16be_to_utf8(hostLE, FALSE, utf8Cap, mem, (p + 1) + 1, len1 - 1, forbid),
                        p + 1)
    ELSE WithTop(c89str_utf16ne_to_utf8(hostLE, FALSE, utf8Cap, mem, p, utf16Len, flags),
                 HasBomTop(p, utf16Len, 2))

\* The loops of c89str_utf16_to_utf32_len_internal
RECURSIVE utf16_to_utf32_len_walk(_, _, _, _, _, _, _, _, _)
utf16_to_utf32_len_walk(hostLE, isLE, mem, b, utf16Len, flags, i, utf32Len, top) ==
    LET q == b + i
        nt == utf16Len = NT
        short == IF nt THEN Rd(mem, q + 1) = 0 ELSE SzLt(utf16Len, i + 1)
        st == Utf16Step(hostLE, isLE, mem, q, nt, short, flags, top)
    IN
    IF ~nt /\ ~SzLt(i, utf16Len) THEN Ret(C89STR_SUCCESS, utf32Len, i, top)
    ELSE IF q >= Len(mem) THEN Fault(top, << >>)
    ELSE IF nt /\ Rd(mem, q) = 0 THEN Ret(C89STR_SUCCESS, utf32Len, i, Top(top, q))
    ELSE IF st.brk THEN Ret(st.result, utf32Len, i, st.top)
    ELSE utf16_to_utf32_len_walk(hostLE, isLE, mem, b, utf16Len, flags, i + st.n,
                                 utf32Len + 1, st.top)

c89str_utf16_to_utf32_len_internal(hostLE, mem, p, utf16Len, flags, isLE) ==
    IF utf16Len = 0 THEN Ret(C89STR_SUCCESS, 0, 0, 0)
    ELSE IF Rd(mem, p) = 0 THEN Ret(C89STR_SUCCESS, 0, 0, p + 1)
    ELSE IF c89str_utf16_has_bom(hostLE, mem, p, utf16Len) THEN
        IF HasFlag(flags, C89STR_FORBID_BOM) THEN Ret(C89STR_EBOM, 0, 0, p + 1)
        ELSE utf16_to_utf32_len_walk(hostLE, isLE, mem, p + 1,
                                     IF utf16Len # NT THEN utf16Len - 1 ELSE utf16Len,
                                     flags, 0, 0, p + 1)
    ELSE utf16_to_utf32_len_walk(hostLE, isLE, mem, p, utf16Len, flags, 0, 0, p + 1)

c89str_utf16le_to_utf32_len(hostLE, mem, p, utf16Len, flags) ==
    c89str_utf16_to_utf32_len_internal(hostLE, mem, p, utf16Len, flags, TRUE)

c89str_utf16be_to_utf32_len(hostLE, mem, p, utf16Len, flags) ==
    c89str_utf16_to_utf32_len_internal(hostLE, mem, p, utf16Len, flags, FALSE)

c89str_utf16ne_to_utf32_len(hostLE, mem, p, utf16Len, flags) ==
    IF hostLE THEN c89str_utf16le_to_utf32_len(hostLE, mem, p, utf16Len, flags)
    ELSE c89str_utf16be_to_utf32_len(hostLE, mem, p, utf16Len, flags)

c89str_utf16_to_utf32_len(hostLE, mem, p, utf16Len, flags) ==
    IF c89str_utf16_has_bom(hostLE, mem, p, utf16Len) THEN
        IF HasFlag(flags, C89STR_FORBID_BOM) THEN RetKeep(C89STR_EBOM, p + 1)
        ELSE
            LET isLE == c89str_utf16_is_bom_le(Bytes16(hostLE, Rd(mem, p)))
                len1 == IF utf16Len # NT THEN utf16Len - 1 ELSE utf16Len
                forbid == OrFlag(flags, C89STR_FORBID_BOM)
            IN  PlusBom(IF isLE
                        THEN c89str_utf16le_to_utf32_len(hostLE, mem, (p + 1) + 1, len1 - 1, forbid)
                        ELSE c89str_utf16be_to_utf32_len(hostLE, mem, (p + 1) + 1, len1 - 1, forbid),
                        p + 1)
    ELSE WithTop(c89str_utf16ne_to_utf32_len(hostLE, mem, p, utf16Len, flags),
                 HasBomTop(p, utf16Len, 2))

\* The loops of c89str_utf16_to_utf32_internal
RECURSIVE utf16_to_utf32_walk(_, _, _, _, _, _, _, _, _, _, _)
utf16_to_utf32_walk(hostLE, isLE, mem, b, utf16Len, flags, i, utf32CapOriginal, utf32Cap, out, top) ==
    LET q == b + i
        nt == utf16Len = NT
        short == IF nt THEN Rd(mem, q + 1) = 0 ELSE SzLt(utf16Len, i + 1)
        st == Utf16Step(hostLE, isLE, mem, q, nt, short, flags, top)
        unit == IF isLE THEN c89str_host2le_32(hostLE, st.utf32)
                ELSE c89str_host2be_32(hostLE, st.utf32)
        break(result, t) == Terminate(result, utf32CapOriginal, utf32Cap, i, t, out)
    IN
    IF ~nt /\ ~SzLt(i, utf16Len) THEN break(C89STR_SUCCESS, top)
    ELSE IF ~nt /\ utf32Cap = 0 THEN break(ENOMEM, top)
    ELSE IF q >= Len(mem) THEN Fault(top, out)
    ELSE IF nt /\ Rd(mem, q) = 0 THEN break(C89STR_SUCCESS, Top(top, q))
    ELSE IF utf32Cap = 0 THEN break(ENOMEM, Top(top, q))
    ELSE IF st.brk THEN break(st.result, st.top)
    ELSE utf16_to_utf32_walk(hostLE, isLE, mem, b, utf16Len, flags, i + st.n, utf32CapOriginal,
                             utf32Cap - 1, Append(out, unit), st.top)

c89str_utf16_to_utf32_internal(hostLE, dstNull, utf32Cap, mem, p, utf16Len, flags, isLE) ==
    IF dstNull THEN c89str_utf16_to_utf32_len_internal(hostLE, mem, p, utf16Len, flags, isLE)
    ELSE IF c89str_utf16_has_bom(hostLE, mem, p, utf16Len) THEN
        IF HasFlag(flags, C89STR_FORBID_BOM) THEN Ret(C89STR_EBOM, 0, 0, p + 1)
        ELSE utf16_to_utf32_walk(hostLE, isLE, mem, p + 1,
                                 IF utf16Len # NT THEN utf16Len - 1 ELSE utf16Len,
                                 flags, 0, utf32Cap, utf32Cap, << >>, p + 1)
    ELSE utf16_to_utf32_walk(hostLE, isLE, mem, p, utf16Len, flags, 0, utf32Cap, utf32Cap, << >>,
                             HasBomTop(p, utf16Len, 2))

c89str_utf16le_to_utf32le(hostLE, dstNull, utf32Cap, mem, p, utf16Len, flags) ==
    c89str_utf16_to_utf32_internal(hostLE, dstNull, utf32Cap, mem, p, utf16Len, flags, TRUE)

c89str_utf16be_to_utf32be(hostLE, dstNull, utf32Cap, mem, p, utf16Len, flags) ==
    c89str_utf16_to_utf32_internal(hostLE, dstNull, utf32Cap, mem, p, utf16Len, flags, FALSE)

c89str_utf16ne_to_utf32ne(hostLE, dstNull, utf32Cap, mem, p, utf16Len, flags) ==
    IF hostLE THEN c89str_utf16le_to_utf32le(hostLE, dstNull, utf32Cap, mem, p, utf16Len, flags)
    ELSE c89str_utf16be_to_utf32be(hostLE, dstNull, utf32Cap, mem, p, utf16Len, flags)

c89str_utf16_to_utf32(hostLE, dstNull, utf32Cap, mem, p, utf16Len, flags) ==
    IF dstNull THEN c89str_utf16_to_utf32_len(hostLE, mem, p, utf16Len, flags)
    ELSE IF c89str_utf16_has_bom(hostLE, mem, p, utf16Len) THEN
        IF HasFlag(flags, C89STR_FORBID_BOM) THEN RetKeep(C89STR_EBOM, p + 1)
        ELSE
            LET isLE == c89str_utf16_is_bom_le(Bytes16(hostLE, Rd(mem, p)))
                len1 == IF utf16Len # NT THEN utf16Len - 1 ELSE utf16Len
                forbid == OrFlag(flags, C89STR_FORBID_BOM)
            IN  PlusBom(IF isLE
                        THEN c89str_utf16le_to_utf32le(hostLE, FALSE, utf32Cap, mem, (p + 1) + 1, len1 - 1, forbid)
                        ELSE c89str_utf16be_to_utf32be(hostLE, FALSE, utf32Cap, mem, (p + 1) + 1, len1 - 1, forbid),
                        p + 1)
    ELSE WithTop(c89str_utf16ne_to_utf32ne(hostLE, FALSE, utf32Cap, mem, p, utf16Len, flags),
                 HasBomTop(p, utf16Len, 2))

\* ------------------------------------------------------------------------
\* UTF-32 source
\* ------------------------------------------------------------------------
\* The loops of c89str_utf32_to_utf8_len_internal
RECURSIVE utf32_to_utf8_len_walk(_, _, _, _, _, _, _, _, _)
utf32_to_utf8_len_walk(hostLE, isLE, mem, b, utf32Len, flags, i, utf8Len, top) ==
    LET q == b + i
        nt == utf32Len = NT
        unit == IF isLE THEN c89str_le2host_32(hostLE, Rd(mem, q))
                ELSE c89str_be2host_32(hostLE, Rd(mem, q))
        strict == HasFlag(flags, C89STR_ERROR_ON_INVALID_CODE_POINT)
        utf32 == IF ~c89str_is_valid_code_point(unit)
                 THEN C89STR_UNICODE_REPLACEMENT_CODE_POINT ELSE unit
    IN
    IF ~nt /\ ~SzLt(i, utf32Len) THEN Ret(C89STR_SUCCESS, utf8Len, i, top)
    ELSE IF q >= Len(mem) THEN Fault(top, << >>)
    ELSE IF nt /\ Rd(mem, q) = 0 THEN Ret(C89STR_SUCCESS, utf8Len, i, Top(top, q))
    ELSE IF ~c89str_is_valid_code_point(unit) /\ strict
    THEN Ret(C89STR_ECODEPOINT, utf8Len, i, Top(top, q))
    ELSE utf32_to_utf8_len_walk(hostLE, isLE, mem, b, utf32Len, flags, i + 1,
                                 utf8Len + c89str_utf32_cp_to_utf8_len(utf32), Top(top, q))

c89str_utf32_to_utf8_len_internal(hostLE, mem, p, utf32Len, flags, isLE) ==
    IF utf32Len = 0 THEN Ret(C89STR_SUCCESS, 0, 0, 0)
    ELSE IF Rd(mem, p) = 0 THEN Ret(C89STR_SUCCESS, 0, 0, p + 1)
    ELSE IF c89str_utf32_has_bom(hostLE, mem, p, utf32Len) THEN
        IF HasFlag(flags, C89STR_FORBID_BOM) THEN Ret(C89STR_EBOM, 0, 0, p + 1)
        ELSE utf32_to_utf8_len_walk(hostLE, isLE, mem, p + 1,
                                     IF utf32Len # NT THEN utf32Len - 1 ELSE utf32Len,
                                     flags, 0, 0, p + 1)
    ELSE utf32_to_utf8_len_walk(hostLE, isLE, mem, p, utf32Len, flags, 0, 0, p + 1)

c89str_utf32le_to_utf8_len(hostLE, mem, p, utf32Len, flags) ==
    c89str_utf32_to_utf8_len_internal(hostLE, mem, p, utf32Len, flags, TRUE)

c89str_utf32be_to_utf8_len(hostLE, mem, p, utf32Len, flags) ==
    c89str_utf32_to_utf8_len_internal(hostLE, mem, p, utf32Len, flags, FALSE)

c89str_utf32ne_to_utf8_len(hostLE, mem, p, utf32Len, flags) ==
    IF hostLE THEN c89str_utf32le_to_utf8_len(hostLE, mem, p, utf32Len, flags)
    ELSE c89str_utf32be_to_utf8_len(hostLE, mem, p, utf32Len, flags)

c89str_utf32_to_utf8_len(hostLE, mem, p, utf32Len, flags) ==
    IF c89str_utf32_has_bom(hostLE, mem, p, utf32Len) THEN
        IF HasFlag(flags, C89STR_FORBID_BOM) THEN RetKeep(C89STR_EBOM, p + 1)
        ELSE
            LET isLE == c89str_utf32_is_bom_le(Bytes32(hostLE, Rd(mem, p)))
                len1 == IF utf32Len # NT THEN utf32Len - 1 ELSE utf32Len
                forbid == OrFlag(flags, C89STR_FORBID_BOM)
            IN  PlusBom(IF isLE
                        THEN c89str_utf32le_to_utf8_len(hostLE, mem, (p + 1) + 1, len1 - 1, forbid)
                        ELSE c89str_utf32be_to_utf8_len(hostLE, mem, (p + 1) + 1, len1 - 1, forbid),
                        p + 1)
    ELSE WithTop(c89str_utf32ne_to_utf8_len(hostLE, mem, p, utf32Len, flags),
                 HasBomTop(p, utf32Len, 4))

\* The loops of c89str_utf32_to_utf8_internal
RECURSIVE utf32_to_utf8_walk(_, _, _, _, _, _, _, _, _, _, _)
utf32_to_utf8_walk(hostLE, isLE, mem, b, utf32Len, flags, i, utf8CapOriginal, utf8Cap, out, top) ==
    LET q == b + i
        nt == utf32Len = NT
        unit == IF isLE THEN c89str_le2host_32(hostLE, Rd(mem, q))
                ELSE c89str_be2host_32(hostLE, Rd(mem, q))
        strict == HasFlag(flags, C89STR_ERROR_ON_INVALID_CODE_POINT)
        utf32 == IF ~c89str_is_valid_code_point(unit)
                 THEN C89STR_UNICODE_REPLACEMENT_CODE_POINT ELSE unit
        units == c89str_utf32_cp_to_utf8(utf32, utf8Cap)
        break(result, t) == Terminate(result, utf8CapOriginal, utf8Cap, i, t, out)
    IN
    IF ~nt /\ ~SzLt(i, utf32Len) THEN break(C89STR_SUCCESS, top)
    ELSE IF ~nt /\ utf8Cap = 0 THEN break(ENOMEM, top)
    ELSE IF q >= Len(mem) THEN Fault(top, out)
    ELSE IF nt /\ Rd(mem, q) = 0 THEN break(C89STR_SUCCESS, Top(top, q))
    ELSE IF utf8Cap = 0 THEN break(ENOMEM, Top(top, q))
    ELSE IF ~c89str_is_valid_code_point(unit) /\ strict
    THEN break(C89STR_ECODEPOINT, Top(top, q))
    ELSE IF units = << >> THEN break(ENOMEM, Top(top, q))
    ELSE utf32_to_utf8_walk(hostLE, isLE, mem, b, utf32Len, flags, i + 1, utf8CapOriginal,
                             utf8Cap - Len(units), out \o units, Top(top, q))

\* With a NULL destination the function calls itself with the arguments it
\* was given, and so on without end.
c89str_utf32_to_utf8_internal(hostLE, dstNull, utf8Cap, mem, p, utf32Len, flags, isLE) ==
    IF dstNull THEN NoReturn
    ELSE IF c89str_utf32_has_bom(hostLE, mem, p, utf32Len) THEN
        IF HasFlag(flags, C89STR_FORBID_BOM) THEN Ret(C89STR_EBOM, 0, 0, p + 1)
        ELSE utf32_to_utf8_walk(hostLE, isLE, mem, p + 1,
                                 IF utf32Len # NT THEN utf32Len - 1 ELSE utf32Len,
                                 flags, 0, utf8Cap, utf8Cap, << >>, p + 1)
    ELSE utf32_to_utf8_walk(hostLE, isLE, mem, p, utf32Len, flags, 0, utf8Cap, utf8Cap, << >>,
                             HasBomTop(p, utf32Len, 4))

c89str_utf32le_to_utf8(hostLE, dstNull, utf8Cap, mem, p, utf32Len, flags) ==
    c89str_utf32_to_utf8_internal(hostLE, dstNull, utf8Cap, mem, p, utf32Len, flags, TRUE)

c89str_utf32be_to_utf8(hostLE, dstNull, utf8Cap, mem, p, utf32Len, flags) ==
    c89str_utf32_to_utf8_internal(hostLE, dstNull, utf8Cap, mem, p, utf32Len, flags, FALSE)

c89str_utf32ne_to_utf8(hostLE, dstNull, utf8Cap, mem, p, utf32Len, flags) ==
    IF hostLE THEN c89str_utf32le_to_utf8(hostLE, dstNull, utf8Cap, mem, p, utf32Len, flags)
    ELSE c89str_utf32be_to_utf8(hostLE, dstNull, utf8Cap, mem, p, utf32Len, flags)

\* There is no test for a NULL destination here.
c89str_utf32_to_utf8(hostLE, dstNull, utf8Cap, mem, p, utf32Len, flags) ==
    IF c89str_utf32_has_bom(hostLE, mem, p, utf32Len) THEN
        IF HasFlag(flags, C89STR_FORBID_BOM) THEN RetKeep(C89STR_EBOM, p + 1)
        ELSE
            LET isLE == c89str_utf32_is_bom_le(Bytes32(hostLE, Rd(mem, p)))
                len1 == IF utf32Len # NT THEN utf32Len - 1 ELSE utf32Len
                forbid == OrFlag(flags, C89STR_FORBID_BOM)
            IN  PlusBom(IF isLE
                        THEN c89str_utf32le_to_utf8(hostLE, dstNull, utf8Cap, mem, (p + 1) + 1, len1 - 1, forbid)
                        ELSE c89str_utf32be_to_utf8(hostLE, dstNull, utf8Cap, mem, (p + 1) + 1, len1 - 1, forbid),
                        p + 1)
    ELSE WithTop(c89str_utf32ne_to_utf8(hostLE, dstNull, utf8Cap, mem, p, utf32Len, flags),
                 HasBomTop(p, utf32Len, 4))

\* pUTF16[k] = c89str_host2le_16(pUTF16[k]), resp. c89str_host2be_16
Host2Order16(hostLE, isLE, units) ==
    [k \in DOMAIN units |->
        IF isLE THEN c89str_host2le_16(hostLE, units[k]) ELSE c89str_host2be_16(hostLE, units[k])]

\* The loops of c89str_utf32_to_utf16_len_internal
RECURSIVE utf32_to_utf16_len_walk(_, _, _, _, _, _, _, _, _)
utf32_to_utf16_len_walk(hostLE, isLE, mem, b, utf32Len, flags, i, utf16Len, top) ==
    LET q == b + i
        nt == utf32Len = NT
        unit == IF isLE THEN c89str_le2host_32(hostLE, Rd(mem, q))
                ELSE c89str_be2host_32(hostLE, Rd(mem, q))
        strict == HasFlag(flags, C89STR_ERROR_ON_INVALID_CODE_POINT)
        utf32 == IF ~c89str_is_valid_code_point(unit)
                 THEN C89STR_UNICODE_REPLACEMENT_CODE_POINT ELSE unit
    IN
    IF ~nt /\ ~SzLt(i, utf32Len) THEN Ret(C89STR_SUCCESS, utf16Len, i, top)
    ELSE IF q >= Len(mem) THEN Fault(top, << >>)
    ELSE IF nt /\ Rd(mem, q) = 0 THEN Ret(C89STR_SUCCESS, utf16Len, i, Top(top, q))
    ELSE IF ~c89str_is_valid_code_point(unit) /\ strict
    THEN Ret(C89STR_ECODEPOINT, utf16Len, i, Top(top, q))
    ELSE utf32_to_utf16_len_walk(hostLE, isLE, mem, b, utf32Len, flags, i + 1,
                                 utf16Len + c89str_utf32_cp_to_utf16_len(utf32), Top(top, q))

c89str_utf32_to_utf16_len_internal(hostLE, mem, p, utf32Len, flags, isLE) ==
    IF utf32Len = 0 THEN Ret(C89STR_SUCCESS, 0, 0, 0)
    ELSE IF Rd(mem, p) = 0 THEN Ret(C89STR_SUCCESS, 0, 0, p + 1)
    ELSE IF c89str_utf32_has_bom(hostLE, mem, p, utf32Len) THEN
        IF HasFlag(flags, C89STR_FORBID_BOM) THEN Ret(C89STR_EBOM, 0, 0, p + 1)
        ELSE utf32_to_utf16_len_walk(hostLE, isLE, mem, p + 1,
                                     IF utf32Len # NT THEN utf32Len - 1 ELSE utf32Len,
                                     flags, 0, 0, p + 1)
    ELSE utf32_to_utf16_len_walk(hostLE, isLE, mem, p, utf32Len, flags, 0, 0, p + 1)

c89str_utf32le_to_utf16_len(hostLE, mem, p, utf32Len, flags) ==
    c89str_utf32_to_utf16_len_internal(hostLE, mem, p, utf32Len, flags, TRUE)

c89str_utf32be_to_utf16_len(hostLE, mem, p, utf32Len, flags) ==
    c89str_utf32_to_utf16_len_internal(hostLE, mem, p, utf32Len, flags, FALSE)

c89str_utf32ne_to_utf16_len(hostLE, mem, p, utf32Len, flags) ==
    IF hostLE THEN c89str_utf32le_to_utf16_len(hostLE, mem, p, utf32Len, flags)
    ELSE c89str_utf32be_to_utf16_len(hostLE, mem, p, utf32Len, flags)

c89str_utf32_to_utf16_len(hostLE, mem, p, utf32Len, flags) ==
    IF c89str_utf32_has_bom(hostLE, mem, p, utf32Len) THEN
        IF HasFlag(flags, C89STR_FORBID_BOM) THEN RetKeep(C89STR_EBOM, p + 1)
        ELSE
            LET isLE == c89str_utf32_is_bom_le(Bytes32(hostLE, Rd(mem, p)))
                len1 == IF utf32Len # NT THEN utf32Len - 1 ELSE utf32Len
                forbid == OrFlag(flags, C89STR_FORBID_BOM)
            IN  PlusBom(IF isLE
                        THEN c89str_utf32le_to_utf16_len(hostLE, mem, (p + 1) + 1, len1 - 1, forbid)
                        ELSE c89str_utf32be_to_utf16_len(hostLE, mem, (p + 1) + 1, len1 - 1, forbid),
                        p + 1)
    ELSE WithTop(c89str_utf32ne_to_utf16_len(hostLE, mem, p, utf32Len, flags),
                 HasBomTop(p, utf32Len, 4))

\* The loops of c89str_utf32_to_utf16_internal.  The units that
\* c89str_utf32_cp_to_utf16 stored are then put into the byte order asked for.
RECURSIVE utf32_to_utf16_walk(_, _, _, _, _, _, _, _, _, _, _)
utf32_to_utf16_walk(hostLE, isLE, mem, b, utf32Len, flags, i, utf16CapOriginal, utf16Cap, out, top) ==
    LET q == b + i
        nt == utf32Len = NT
        unit == IF isLE THEN c89str_le2host_32(hostLE, Rd(mem, q))
                ELSE c89str_be2host_32(hostLE, Rd(mem, q))
        strict == HasFlag(flags, C89STR_ERROR_ON_INVALID_CODE_POINT)
        utf32 == IF ~c89str_is_valid_code_point(unit)
                 THEN C89STR_UNICODE_REPLACEMENT_CODE_POINT ELSE unit
        units == c89str_utf32_cp_to_utf16(utf32, utf16Cap)
        break(result, t) == Terminate(result, utf16CapOriginal, utf16Cap, i, t, out)
    IN
    IF ~nt /\ ~SzLt(i, utf32Len) THEN break(C89STR_SUCCESS, top)
    ELSE IF ~nt /\ utf16Cap = 0 THEN break(ENOMEM, top)
    ELSE IF q >= Len(mem) THEN Fault(top, out)
    ELSE IF nt /\ Rd(mem, q) = 0 THEN break(C89STR_SUCCESS, Top(top, q))
    ELSE IF utf16Cap = 0 THEN break(ENOMEM, Top(top, q))
    ELSE IF ~c89str_is_valid_code_point(unit) /\ strict
    THEN break(C89STR_ECODEPOINT, Top(top, q))
    ELSE IF units = << >> THEN break(ENOMEM, Top(top, q))
    ELSE utf32_to_utf16_walk(hostLE, isLE, mem, b, utf32Len, flags, i + 1, utf16CapOriginal,
                             utf16Cap - Len(units), out \o Host2Order16(hostLE, isLE, units), Top(top, q))

\* With a NULL destination the function calls itself with the arguments it
\* was given, and so on without end.
c89str_utf32_to_utf16_internal(hostLE, dstNull, utf16Cap, mem, p, utf32Len, flags, isLE) ==
    IF dstNull THEN NoReturn
    ELSE IF c89str_utf32_has_bom(hostLE, mem, p, utf32Len) THEN
        IF HasFlag(flags, C89STR_FORBID_BOM) THEN Ret(C89STR_EBOM, 0, 0, p + 1)
        ELSE utf32_to_utf16_walk(hostLE, isLE, mem, p + 1,
                                 IF utf32Len # NT THEN utf32Len - 1 ELSE utf32Len,
                                 flags, 0, utf16Cap, utf16Cap, << >>, p + 1)
    ELSE utf32_to_utf16_walk(hostLE, isLE, mem, p, utf32Len, flags, 0, utf16Cap, utf16Cap, << >>,
                             HasBomTop(p, utf32Len, 4))

c89str_utf32le_to_utf16le(hostLE, dstNull, utf16Cap, mem, p, utf32Len, flags) ==
    c89str_utf32_to_utf16_internal(hostLE, dstNull, utf16Cap, mem, p, utf32Len, flags, TRUE)

c89str_utf32be_to_utf16be(hostLE, dstNull, utf16Cap, mem, p, utf32Len, flags) ==
    c89str_utf32_to_utf16_internal(hostLE, dstNull, utf16Cap, mem, p, utf32Len, flags, FALSE)

c89str_utf32ne_to_utf16ne(hostLE, dstNull, utf16Cap, mem, p, utf32Len, flags) ==
    IF hostLE THEN c89str_utf32le_to_utf16le(hostLE, dstNull, utf16Cap, mem, p, utf32Len, flags)
    ELSE c89str_utf32be_to_utf16be(hostLE, dstNull, utf16Cap, mem, p, utf32Len, flags)

\* There is no test for a NULL destination here.
\* Without a BOM the native-endian call is handed pUTF32+1 and utf32Len-1.
c89str_utf32_to_utf16(hostLE, dstNull, utf16Cap, mem, p, utf32Len, flags) ==
    IF c89str_utf32_has_bom(hostLE, mem, p, utf32Len) THEN
        IF HasFlag(flags, C89STR_FORBID_BOM) THEN RetKeep(C89STR_EBOM, p + 1)
        ELSE
            LET isLE == c89str_utf32_is_bom_le(Bytes32(hostLE, Rd(mem, p)))
                len1 == IF utf32Len # NT THEN utf32Len - 1 ELSE utf32Len
                forbid == OrFlag(flags, C89STR_FORBID_BOM)
            IN  PlusBom(IF isLE
                        THEN c89str_utf32le_to_utf16le(hostLE, dstNull, utf16Cap, mem, (p + 1) + 1, len1 - 1, forbid)
                        ELSE c89str_utf32be_to_utf16be(hostLE, dstNull, utf16Cap, mem, (p + 1) + 1, len1 - 1, forbid),
                        p + 1)
    ELSE WithTop(c89str_utf32ne_to_utf16ne(hostLE, dstNull, utf16Cap, mem, p + 1, utf32Len - 1, flags),
                 HasBomTop(p, utf32Len, 4))

\* ------------------------------------------------------------------------
\* The calls, by direction and variant
\* ------------------------------------------------------------------------
\* variant "ne": the native-endian functions (c89str_utf8_to_utf16_len,
\* c89str_utf8_to_utf16ne, c89str_utf16ne_to_utf8_len, ...); variants "le"
\* and "be": the functions of an explicit byte order; variant "auto":
\* the functions that take the byte order from the BOM
\* (c89str_utf16_to_utf8_len, c89str_utf16_to_utf8, ...).
MeasureCall(hostLE, src, dst, variant, mem, len, flags) ==
    IF src = "utf8" THEN
        IF dst = "utf16" THEN c89str_utf8_to_utf16_len(mem, 0, len, flags)
        ELSE c89str_utf8_to_utf32_len(mem, 0, len, flags)
    ELSE IF src = "utf16" THEN
        IF dst = "utf8" THEN
            IF variant = "ne" THEN c89str_utf16ne_to_utf8_len(hostLE, mem, 0, len, flags)
            ELSE IF variant = "le" THEN c89str_utf16le_to_utf8_len(hostLE, mem, 0, len, flags)
            ELSE IF variant = "be" THEN c89str_utf16be_to_utf8_len(hostLE, mem, 0, len, flags)
            ELSE c89str_utf16_to_utf8_len(hostLE, mem, 0, len, flags)
        ELSE
            IF variant = "ne" THEN c89str_utf16ne_to_utf32_len(hostLE, mem, 0, len, flags)
            ELSE IF variant = "le" THEN c89str_utf16le_to_utf32_len(hostLE, mem, 0, len, flags)
            ELSE IF variant = "be" THEN c89str_utf16be_to_utf32_len(hostLE, mem, 0, len, flags)
            ELSE c89str_utf16_to_utf32_len(hostLE, mem, 0, len, flags)
    ELSE
        IF dst = "utf8" THEN
            IF variant = "ne" THEN c89str_utf32ne_to_utf8_len(hostLE, mem, 0, len, flags)
            ELSE IF variant = "le" THEN c89str_utf32le_to_utf8_len(hostLE, mem, 0, len, flags)
            ELSE IF variant = "be" THEN c89str_utf32be_to_utf8_len(hostLE, mem, 0, len, flags)
            ELSE c89str_utf32_to_utf8_len(hostLE, mem, 0, len, flags)
        ELSE
            IF variant = "ne" THEN c89str_utf32ne_to_utf16_len(hostLE, mem, 0, len, flags)
            ELSE IF variant = "le" THEN c89str_utf32le_to_utf16_len(hostLE, mem, 0, len, flags)
            ELSE IF variant = "be" THEN c89str_utf32be_to_utf16_len(hostLE, mem, 0, len, flags)
            ELSE c89str_utf32_to_utf16_len(hostLE, mem, 0, len, flags)

ConvertCall(hostLE, src, dst, variant, dstNull, cap, mem, len, flags) ==
    IF src = "utf8" THEN
        IF dst = "utf16" THEN c89str_utf8_to_utf16ne(dstNull, cap, mem, 0, len, flags)
        ELSE c89str_utf8_to_utf32ne(dstNull, cap, mem, 0, len, flags)
    ELSE IF src = "utf16" THEN
        IF dst = "utf8" THEN
            IF variant = "ne" THEN c89str_utf16ne_to_utf8(hostLE, dstNull, cap, mem, 0, len, flags)
            ELSE IF variant = "le" THEN c89str_utf16le_to_utf8(hostLE, dstNull, cap, mem, 0, len, flags)
            ELSE IF variant = "be" THEN c89str_utf16be_to_utf8(hostLE, dstNull, cap, mem, 0, len, flags)
            ELSE c89str_utf16_to_utf8(hostLE, dstNull, cap, mem, 0, len, flags)
        ELSE
            IF variant = "ne" THEN c89str_utf16ne_to_utf32ne(hostLE, dstNull, cap, mem, 0, len, flags)
            ELSE IF variant = "le" THEN c89str_utf16le_to_utf32le(hostLE, dstNull, cap, mem, 0, len, flags)
            ELSE IF variant = "be" THEN c89str_utf16be_to_utf32be(hostLE, dstNull, cap, mem, 0, len, flags)
            ELSE c89str_utf16_to_utf32(hostLE, dstNull, cap, mem, 0, len, flags)
    ELSE
        IF dst = "utf8" THEN
            IF variant = "ne" THEN c89str_utf32ne_to_utf8(hostLE, dstNull, cap, mem, 0, len, flags)
            ELSE IF variant = "le" THEN c89str_utf32le_to_utf8(hostLE, dstNull, cap, mem, 0, len, flags)
            ELSE IF variant = "be" THEN c89str_utf32be_to_utf8(hostLE, dstNull, cap, mem, 0, len, flags)
            ELSE c89str_utf32_to_utf8(hostLE, dstNull, cap, mem, 0, len, flags)
        ELSE
            IF variant = "ne" THEN c89str_utf32ne_to_utf16ne(hostLE, dstNull, cap, mem, 0, len, flags)
            ELSE IF variant = "le" THEN c89str_utf32le_to_utf16le(hostLE, dstNull, cap, mem, 0, len, flags)
            ELSE IF variant = "be" THEN c89str_utf32be_to_utf16be(hostLE, dstNull, cap, mem, 0, len, flags)
            ELSE c89str_utf32_to_utf16(hostLE, dstNull, cap, mem, 0, len, flags)

\* ------------------------------------------------------------------------
\* Strings, white space and lines
\* ------------------------------------------------------------------------
\* Size comparisons of the lexer: a size is kept as in the conversions
SzLe(a, b) == a = b \/ SzLt(a, b)

\* c89str_strlen(pText + p)
RECURSIVE c89str_strlen_walk(_, _, _)
c89str_strlen_walk(mem, p, n) ==
    IF Rd(mem, p + n) = 0 THEN n ELSE c89str_strlen_walk(mem, p, n + 1)

c89str_strlen(mem, p) == c89str_strlen_walk(mem, p, 0)

\* c89str_begins_with(str1, str1Len, str2, (size_t)-1) for a constant str2
RECURSIVE c89str_begins_with_walk(_, _, _, _, _)
c89str_begins_with_walk(mem, p, str1Len, str2, i) ==
    IF str1Len - i = 0 \/ Rd(mem, p + i) = 0 THEN i = Len(str2)
    ELSE IF i = Len(str2) THEN TRUE
    ELSE IF Rd(mem, p + i) # str2[i + 1] THEN FALSE
    ELSE c89str_begins_with_walk(mem, p, str1Len, str2, i + 1)

c89str_begins_with(mem, p, str1Len, str2) == c89str_begins_with_walk(mem, p, str1Len, str2, 0)

\* c89str_findn(str, strLen, other, otherLen, &result) for a constant other:
\* found with the offset, not found, or a search that runs off the memory
RECURSIVE c89str_findn_walk(_, _, _, _, _)
c89str_findn_walk(mem, p, strLen, other, strOff) ==
    IF SzLt(strLen - strOff, Len(other)) THEN [term |-> "ret", found |-> FALSE, off |-> NT]
    ELSE IF p + strOff >= Len(mem) THEN [term |-> "fault", found |-> FALSE, off |-> NT]
    ELSE IF \A i \in 1..Len(other) : Rd(mem, p + strOff + (i - 1)) = other[i]
    THEN [term |-> "ret", found |-> TRUE, off |-> strOff]
    ELSE c89str_findn_walk(mem, p, strLen, other, strOff + 1)

c89str_findn(mem, p, strLen, other) ==
    LET n == IF strLen = NT THEN c89str_strlen(mem, p) ELSE strLen
    IN  IF n = 0 \/ Len(other) = 0 THEN [term |-> "ret", found |-> FALSE, off |-> NT]
        ELSE c89str_findn_walk(mem, p, n, other, 0)

\* c89str_utf32_is_null_or_whitespace(&utf32, 1)
c89str_utf32_is_null_or_whitespace(cp) ==
    \/ cp = 0
    \/ cp >= 9 /\ cp <= 13
    \/ cp >= 8192 /\ cp <= 8202
    \/ cp \in { 32, 133, 160, 5760, 8232, 8233, 8239, 8287, 12288 }

c89str_utf32_is_newline(utf32) ==
    \/ utf32 >= 10 /\ utf32 <= 13
    \/ utf32 = 133
    \/ utf32 >= 8232 /\ utf32 <= 8233

\* What the loops below take from a call of c89str_utf8_to_utf32 that ended
\* as r: go, the two tests on err and utf8Processed that follow the call
\* passed; the code point; the bytes processed
Decoded(r) ==
    [go |-> /\ r.term = "ret"
            /\ r.res = C89STR_SUCCESS \/ r.res = ENOMEM
            /\ r.processed # 0,
     utf32 |-> IF r.out = << >> THEN 0 ELSE r.out[1],
     utf8Processed |-> r.processed]

\* err = c89str_utf8_to_utf32(&utf32, 1, NULL, pUTF8, utf8Len, &utf8Processed, 0)
c89str_utf8_to_utf32(mem, p, utf8Len) ==
    Decoded(c89str_utf8_to_utf32ne(FALSE, 1, mem, p, utf8Len, 0))

\* c89str_utf8_find_next_whitespace: the loop, and its body after the code
\* point at p has been decoded as d
RECURSIVE c89str_utf8_find_next_whitespace_walk(_, _, _, _)
RECURSIVE c89str_utf8_find_next_whitespace_step(_, _, _, _, _)
c89str_utf8_find_next_whitespace_walk(mem, p, utf8Len, utf8RunningOffset) ==
    IF Rd(mem, p) = 0 \/ utf8Len = 0 THEN NT
    ELSE c89str_utf8_find_next_whitespace_step(mem, p, utf8Len, utf8RunningOffset,
             c89str_utf8_to_utf32(mem, p, utf8Len))

c89str_utf8_find_next_whitespace_step(mem, p, utf8Len, utf8RunningOffset, d) ==
    IF ~d.go THEN NT
    ELSE IF c89str_utf32_is_null_or_whitespace(d.utf32) THEN utf8RunningOffset
    ELSE c89str_utf8_find_next_whitespace_walk(mem, p + d.utf8Processed,
             utf8Len - d.utf8Processed, utf8RunningOffset + d.utf8Processed)

c89str_utf8_find_next_whitespace(mem, p, utf8Len) ==
    c89str_utf8_find_next_whitespace_walk(mem, p, utf8Len, 0)

\* c89str_utf8_ltrim_offset: the loop, and its body after the code point at p
\* has been decoded as d
RECURSIVE c89str_utf8_ltrim_offset_walk(_, _, _, _)
RECURSIVE c89str_utf8_ltrim_offset_step(_, _, _, _, _)
c89str_utf8_ltrim_offset_walk(mem, p, utf8Len, utf8RunningOffset) ==
    IF Rd(mem, p) = 0 \/ utf8Len = 0 THEN utf8RunningOffset
    ELSE c89str_utf8_ltrim_offset_step(mem, p, utf8Len, utf8RunningOffset,
             c89str_utf8_to_utf32(mem, p, utf8Len))

c89str_utf8_ltrim_offset_step(mem, p, utf8Len, utf8RunningOffset, d) ==
    IF ~d.go THEN utf8RunningOffset
    ELSE IF ~c89str_utf32_is_null_or_whitespace(d.utf32) THEN utf8RunningOffset
    ELSE c89str_utf8_ltrim_offset_walk(mem, p + d.utf8Processed,
             utf8Len - d.utf8Processed, utf8RunningOffset + d.utf8Processed)

c89str_utf8_ltrim_offset(mem, p, utf8Len) == c89str_utf8_ltrim_offset_walk(mem, p, utf8Len, 0)

\* c89str_utf8_find_next_line: nextBeg is the value returned, thisLen the
\* value stored through pThisLineLen; asserted: the C89STR_ASSERT in the
\* loop failed. The loop, and its body after the code point at p has been
\* decoded as d
RECURSIVE c89str_utf8_find_next_line_walk(_, _, _, _, _)
RECURSIVE c89str_utf8_find_next_line_step(_, _, _, _, _, _)
c89str_utf8_find_next_line_walk(mem, p, utf8Len, thisLen, nextBeg) ==
    IF Rd(mem, p) = 0 \/ utf8Len = 0
    THEN [nextBeg |-> nextBeg, thisLen |-> thisLen, asserted |-> FALSE]
    ELSE c89str_utf8_find_next_line_step(mem, p, utf8Len, thisLen, nextBeg,
             c89str_utf8_to_utf32(mem, p, utf8Len))

c89str_utf8_find_next_line_step(mem, p, utf8Len, thisLen, nextBeg, d) ==
    IF ~d.go THEN [nextBeg |-> nextBeg, thisLen |-> thisLen, asserted |-> FALSE]
    ELSE IF c89str_utf32_is_newline(d.utf32) THEN
        [nextBeg |-> nextBeg + d.utf8Processed
                     + (IF /\ d.utf32 = 13
                           /\ utf8Len + d.utf8Processed # 0
                           /\ Rd(mem, p + d.utf8Processed) = 10
                        THEN 1 ELSE 0),
         thisLen |-> thisLen, asserted |-> FALSE]
    ELSE IF SzLt(utf8Len, d.utf8Processed)
    THEN [nextBeg |-> nextBeg + d.utf8Processed, thisLen |-> thisLen, asserted |-> TRUE]
    ELSE c89str_utf8_find_next_line_walk(mem, p + d.utf8Processed,
             utf8Len - d.utf8Processed, thisLen + d.utf8Processed,
             nextBeg + d.utf8Processed)

c89str_utf8_find_next_line(mem, p, utf8Len) ==
    c89str_utf8_find_next_line_walk(mem, p, utf8Len, 0, 0)

\* c89str_is_null_or_whitespace(str + p, strLen): the bytes c0, c1, c2 are
\* taken off the string one by one, strLen counting what is left
RECURSIVE c89str_is_null_or_whitespace(_, _, _)
c89str_is_null_or_whitespace(mem, p, strLen) ==
    LET c0 == Rd(mem, p)
        c1 == Rd(mem, p + 1)
        c2 == Rd(mem, p + 2)
    IN  IF c0 = 0 \/ strLen = 0 THEN TRUE
        ELSE IF (c0 >= 9 /\ c0 <= 13) \/ c0 = 32
        THEN c89str_is_null_or_whitespace(mem, p + 1, strLen - 1)
        ELSE IF strLen - 1 = 0 THEN FALSE
        ELSE IF c0 = 194 /\ (c1 = 133 \/ c1 = 160)
        THEN c89str_is_null_or_whitespace(mem, p + 2, strLen - 2)
        ELSE IF ~SzLt(1, strLen - 2) THEN FALSE
        ELSE IF \/ c0 = 225 /\ c1 = 154 /\ c2 = 128
                \/ c0 = 226 /\ c1 = 128 /\ c2 >= 128 /\ c2 <= 138
                \/ c0 = 226 /\ c1 = 128 /\ c2 \in { 168, 169, 175 }
                \/ c0 = 226 /\ c1 = 129 /\ c2 = 159
                \/ c0 = 227 /\ c1 = 128 /\ c2 = 128
        THEN c89str_is_null_or_whitespace(mem, p + 3, strLen - 3)
        ELSE FALSE

c89str_utf8_is_null_or_whitespace(mem, p, utf8Len) ==
    c89str_is_null_or_whitespace(mem, p, utf8Len)

\* c89str_utf16_swap_endian(pUTF16, count). What the call leaves in the
\* memory, and how it ends: the loop for (i = 0; i < count; ++i) of the count
\* (size_t)-1 swaps every unit of the modelled memory and leaves it, a fault;
\* the loop while (pUTF16[0] != 0) of every other count swaps up to the
\* first zero unit
RECURSIVE c89str_utf16_swap_endian_while(_, _)
c89str_utf16_swap_endian_while(units, p) ==
    IF p >= Len(units) THEN [term |-> "fault", units |-> units]
    ELSE IF units[p + 1] = 0 THEN [term |-> "ret", units |-> units]
    ELSE c89str_utf16_swap_endian_while(
             [units EXCEPT ![p + 1] = c89str_swap_endian_uint16(@)], p + 1)

c89str_utf16_swap_endian(units, count) ==
    IF count = NT
    THEN [term |-> "fault",
          units |-> [i \in DOMAIN units |-> c89str_swap_endian_uint16(units[i])]]
    ELSE c89str_utf16_swap_endian_while(units, 0)

\* c89str_utf32_swap_endian(pUTF32, count), likewise
RECURSIVE c89str_utf32_swap_endian_while(_, _)
c89str_utf32_swap_endian_while(units, p) ==
    IF p >= Len(units) THEN [term |-> "fault", units |-> units]
    ELSE IF units[p + 1] = 0 THEN [term |-> "ret", units |-> units]
    ELSE c89str_utf32_swap_endian_while(
             [units EXCEPT ![p + 1] = c89str_swap_endian_uint32(@)], p + 1)

c89str_utf32_swap_endian(units, count) ==
    IF count = NT
    THEN [term |-> "fault",
          units |-> [i \in DOMAIN units |-> c89str_swap_endian_uint32(units[i])]]
    ELSE c89str_utf32_swap_endian_while(units, 0)

\* ------------------------------------------------------------------------
\* The lexer
\* ------------------------------------------------------------------------
\* The enumerators of c89str_token_type, in the order of the enum, the first
\* being C89STR_UNICODE_MAX_CODE_POINT + 1
c89str_token_type_names ==
    << "eof", "error", "whitespace", "newline", "comment", "identifier", "string_double",
       "string_single", "integer_literal_dec", "integer_literal_hex", "integer_literal_oct",
       "integer_literal_bin", "float_literal_dec", "float_literal_hex", "eqeq", "noteq",
       "lteq", "gteq", "andand", "oror", "plusplus", "minusminus", "pluseq", "minuseq",
       "muleq", "diveq", "modeq", "shleq", "shreq", "shl", "shr", "andeq", "oreq", "xoreq",
       "coloncolon", "ellipsis" >>

c89str_token_type(name) ==
    C89STR_UNICODE_MAX_CODE_POINT
        + (CHOOSE i \in DOMAIN c89str_token_type_names : c89str_token_type_names[i] = name)

\* c89str_lexer_init followed by the caller's setting of the options: the
\* fields of the c89str_lexer object that the lexer reads and writes.
\* tokenOff stands for pTokenStr - pText.
c89str_lexer_init(mem, textLen) ==
    [textLen |-> IF textLen = NT THEN c89str_strlen(mem, 0) ELSE textLen,
     textOff |-> 0, tokenOff |-> 0, tokenLen |-> 0, token |-> 0, lineNumber |-> 1]

\* The loop of c89str_lexer_set_token that looks for lines in a comment or
\* a string: the lines counted. The loop, and its body after the call of
\* c89str_utf8_find_next_line that returned fl
RECURSIVE c89str_lexer_set_token_lines(_, _, _, _, _)
RECURSIVE c89str_lexer_set_token_line(_, _, _, _, _, _)
c89str_lexer_set_token_lines(mem, tokenOff, tokenLen, running, n) ==
    c89str_lexer_set_token_line(mem, tokenOff, tokenLen, running, n,
        c89str_utf8_find_next_line(mem, tokenOff + running, tokenLen - running))

c89str_lexer_set_token_line(mem, tokenOff, tokenLen, running, n, fl) ==
    IF fl.asserted THEN [n |-> n, asserted |-> TRUE]
    ELSE IF fl.nextBeg = fl.thisLen THEN [n |-> n, asserted |-> FALSE]
    ELSE c89str_lexer_set_token_lines(mem, tokenOff, tokenLen, running + fl.nextBeg, n + 1)

\* The lines counted in the token: those of the loop for a comment or a
\* string, none for another token
c89str_lexer_set_token_counted(mem, lx, token, tokenLen) ==
    IF token \in { c89str_token_type("comment"), c89str_token_type("string_double"),
                   c89str_token_type("string_single") }
    THEN c89str_lexer_set_token_lines(mem, lx.textOff, tokenLen, 0, 0)
    ELSE [n |-> 0, asserted |-> FALSE]

\* The assignments of c89str_lexer_set_token, for a token of the kinds
\* newlines counting one line and with the lines counted in the token
c89str_lexer_set_token_fields(lx, token, tokenLen, newlines, counted) ==
    [lx |-> [textLen |-> lx.textLen,
             textOff |-> lx.textOff + tokenLen,
             tokenOff |-> lx.textOff,
             tokenLen |-> tokenLen,
             token |-> token,
             lineNumber |-> lx.lineNumber + (IF token \in newlines THEN 1 ELSE 0) + counted.n],
     asserted |-> counted.asserted]

\* c89str_lexer_set_token with a line counted for the end of the input too
c89str_lexer_set_token_eof_line(mem, lx, token, tokenLen) ==
    c89str_lexer_set_token_fields(lx, token, tokenLen,
        { c89str_token_type("newline"), c89str_token_type("eof") },
        c89str_lexer_set_token_counted(mem, lx, token, tokenLen))

c89str_lexer_set_token(mem, lx, token, tokenLen) ==
    c89str_lexer_set_token_fields(lx, token, tokenLen, { c89str_token_type("newline") },
        c89str_lexer_set_token_counted(mem, lx, token, tokenLen))

\* What a call of c89str_lexer_next ends with: the lexer object, the value
\* returned, and how the call ended ("ret", "abort" in a failed assertion,
\* "fault" in a read outside the memory of the text)
LexerResult(set, result) ==
    [lx |-> set.lx, result |-> result, term |-> IF set.asserted THEN "abort" ELSE "ret"]

\* What an iteration of the loop of c89str_lexer_next comes to: the token
\* and the length it hands to c89str_lexer_set_token and the value it
\* returns after that call, or the way it stops before that call.
\* c89str_lexer_next below makes the call of c89str_lexer_set_token.
SetToken(token, tokenLen, result) ==
    [token |-> token, tokenLen |-> tokenLen, result |-> result, term |-> "ret"]

Stopped(term) == [token |-> 0, tokenLen |-> 0, result |-> 0, term |-> term]

\* return c89str_lexer_set_token(pLexer, token, tokenLen)
ReturnToken(token, tokenLen) == SetToken(token, tokenLen, 0)

c89str_lexer_set_single_char(ch) == ReturnToken(ch, 1)

c89str_lexer_set_error(tokenLen) == SetToken(c89str_token_type("error"), tokenLen, EINVAL)

\* txt[off] is one of the characters
Among(mem, off, chars) == Rd(mem, off) \in chars

c89str_lexer_parse_integer_suffix(mem, lx, off) ==
    LET len == lx.textLen
        uU(o) == o < len /\ Among(mem, o, { 117, 85 })
        lL(o) == o < len /\ Among(mem, o, { 108, 76 })
    IN  IF uU(off) THEN
            IF lL(off + 1) THEN (IF lL(off + 2) THEN off + 3 ELSE off + 2) ELSE off + 1
        ELSE IF lL(off) THEN
            IF lL(off + 1) THEN (IF uU(off + 2) THEN off + 3 ELSE off + 2)
            ELSE IF uU(off + 1) THEN off + 2
            ELSE off + 1
        ELSE off

c89str_lexer_parse_float_suffix(mem, lx, off) ==
    IF off < lx.textLen /\ Among(mem, off, { 102, 70, 100, 68, 108, 76 }) THEN off + 1 ELSE off

c89str_lexer_parse_suffix_and_set_token(mem, lx, token, off) ==
    LET end == IF token \in { c89str_token_type("float_literal_dec"),
                              c89str_token_type("float_literal_hex") }
               THEN c89str_lexer_parse_float_suffix(mem, lx, off)
               ELSE c89str_lexer_parse_integer_suffix(mem, lx, off)
    IN  ReturnToken(token, end - lx.textOff)

\* while (off < len && txt[off] is one of the digits) off += 1
RECURSIVE SkipDigits(_, _, _, _)
SkipDigits(mem, off, len, digits) ==
    IF off < len /\ Among(mem, off, digits) THEN SkipDigits(mem, off + 1, len, digits) ELSE off

DecDigits == 48..57
HexDigits == (48..57) \cup (97..102) \cup (65..70)

\* case '1' .. '9', and case '0' when it falls through
LexerDecimal(mem, lx, off) ==
    LET len == lx.textLen
        tokenBeg == off
        o1 == SkipDigits(mem, off + 1, len, DecDigits)
        o2 == IF Rd(mem, o1) = 46 THEN SkipDigits(mem, o1 + 1, len, DecDigits) ELSE o1
        o3 == o2 + 1
        o4 == IF o3 < len /\ Among(mem, o3, { 45, 43 }) THEN o3 + 1 ELSE o3
    IN  IF Among(mem, o1, { 46, 101, 69 }) THEN
            IF Among(mem, o2, { 101, 69 }) THEN
                IF Among(mem, o4, DecDigits)
                THEN c89str_lexer_parse_suffix_and_set_token(mem, lx,
                         c89str_token_type("float_literal_dec"),
                         SkipDigits(mem, o4 + 1, len, DecDigits))
                ELSE c89str_lexer_set_error(o4 - tokenBeg)
            ELSE c89str_lexer_parse_suffix_and_set_token(mem, lx,
                     c89str_token_type("float_literal_dec"), o2)
        ELSE c89str_lexer_parse_suffix_and_set_token(mem, lx,
                 c89str_token_type("integer_literal_dec"), o1)

\* case '0'
LexerZero(mem, lx, off) ==
    LET len == lx.textLen
        tokenBeg == off
        o1 == SkipDigits(mem, off + 2, len, HexDigits)
        o2 == IF Rd(mem, o1) = 46 THEN SkipDigits(mem, o1 + 1, len, HexDigits) ELSE o1
        o3 == o2 + 1
        o4 == IF o3 < len /\ Among(mem, o3, { 45, 43 }) THEN o3 + 1 ELSE o3
        newOff == SkipDigits(mem, off + 1, len, { 48 })
    IN  IF off + 1 < len THEN
            IF Among(mem, off + 1, { 120, 88 }) THEN
                IF Among(mem, o2, { 112, 80 }) THEN
                    IF Among(mem, o4, HexDigits)
                    THEN c89str_lexer_parse_suffix_and_set_token(mem, lx,
                             c89str_token_type("float_literal_hex"),
                             SkipDigits(mem, o4 + 1, len, HexDigits))
                    ELSE c89str_lexer_set_error(o4 - tokenBeg)
                ELSE c89str_lexer_parse_suffix_and_set_token(mem, lx,
                         c89str_token_type("float_literal_hex"), o2)
            ELSE IF Among(mem, off + 1, { 98, 66 }) THEN
                c89str_lexer_parse_suffix_and_set_token(mem, lx,
                    c89str_token_type("integer_literal_bin"),
                    SkipDigits(mem, off + 2, len, { 48, 49 }))
            ELSE IF Among(mem, newOff, 49..55) THEN
                c89str_lexer_parse_suffix_and_set_token(mem, lx,
                    c89str_token_type("integer_literal_oct"),
                    SkipDigits(mem, newOff, len, 48..55))
            ELSE LexerDecimal(mem, lx, off)
        ELSE LexerDecimal(mem, lx, off)

\* The cases of the operator characters
LexerOperator(mem, lx, off) ==
    LET len == lx.textLen
        c0 == Rd(mem, off)
        next(ch) == off + 1 < len /\ Rd(mem, off + 1) = ch
        third(ch) == off + 2 < len /\ Rd(mem, off + 2) = ch
        one == c89str_lexer_set_single_char(c0)
        two(name) == ReturnToken(c89str_token_type(name), 2)
        three(name) == ReturnToken(c89str_token_type(name), 3)
    IN  IF c0 = 61 THEN (IF next(61) THEN two("eqeq") ELSE one)
        ELSE IF c0 = 33 THEN (IF next(61) THEN two("noteq") ELSE one)
        ELSE IF c0 = 60 THEN
            IF next(61) THEN two("lteq")
            ELSE IF next(60) THEN (IF third(61) THEN three("shleq") ELSE two("shl"))
            ELSE one
        ELSE IF c0 = 62 THEN
            IF next(61) THEN two("gteq")
            ELSE IF next(62) THEN (IF third(61) THEN three("shreq") ELSE two("shr"))
            ELSE one
        ELSE IF c0 = 38 THEN
            IF next(38) THEN two("andand") ELSE IF next(61) THEN two("andeq") ELSE one
        ELSE IF c0 = 124 THEN
            IF next(124) THEN two("oror") ELSE IF next(61) THEN two("oreq") ELSE one
        ELSE IF c0 = 43 THEN
            IF next(43) THEN two("plusplus") ELSE IF next(61) THEN two("pluseq") ELSE one
        ELSE IF c0 = 45 THEN
            IF next(45) THEN two("minusminus") ELSE IF next(61) THEN two("minuseq") ELSE one
        ELSE IF c0 = 42 THEN (IF next(61) THEN two("muleq") ELSE one)
        ELSE IF c0 = 47 THEN (IF next(61) THEN two("diveq") ELSE one)
        ELSE IF c0 = 37 THEN (IF next(61) THEN two("modeq") ELSE one)
        ELSE IF c0 = 94 THEN (IF next(61) THEN two("xoreq") ELSE one)
        ELSE IF c0 = 58 THEN (IF next(58) THEN two("coloncolon") ELSE one)
        ELSE IF off + 2 < len /\ Rd(mem, off + 1) = 46 /\ Rd(mem, off + 2) = 46
        THEN three("ellipsis")
        ELSE one

OperatorChars == { 61, 33, 60, 62, 38, 124, 43, 45, 42, 47, 37, 94, 58, 46 }

\* The loop of the default case: the length of the identifier
RECURSIVE LexerIdentifierLen(_, _, _, _, _, _)
LexerIdentifierLen(mem, off, remaining, tokenMaxLen, allowDashes, tokenLen) ==
    LET ch == Rd(mem, off + tokenLen + 1)
    IN  IF ~SzLt(tokenLen, remaining) THEN tokenLen
        ELSE IF tokenLen + 1 = tokenMaxLen THEN tokenLen + 1
        ELSE IF \/ ch >= 97 /\ ch <= 122
                \/ ch >= 65 /\ ch <= 90
                \/ ch >= 48 /\ ch <= 57
                \/ ch = 95
                \/ ch = 45 /\ allowDashes
                \/ ch >= 128
        THEN LexerIdentifierLen(mem, off, remaining, tokenMaxLen, allowDashes, tokenLen + 1)
        ELSE tokenLen + 1

\* default:
LexerDefault(mem, lx, options, off) ==
    LET len == lx.textLen
        ch == Rd(mem, off)
    IN  IF (ch >= 97 /\ ch <= 122) \/ (ch >= 65 /\ ch <= 90) \/ ch = 95 \/ ch >= 128
        THEN ReturnToken(c89str_token_type("identifier"),
                 LexerIdentifierLen(mem, off, len - off,
                     c89str_utf8_find_next_whitespace(mem, off, len - off),
                     options.allowDashesInIdentifiers, 0))
        ELSE c89str_lexer_set_single_char(ch)

\* for (; off < len; off += 1) of a string: closed with the offset after
\* the closing quote, or the offset the loop ended with
RECURSIVE LexerString(_, _, _, _)
LexerString(mem, off, len, quote) ==
    IF ~(off < len) THEN [closed |-> FALSE, off |-> off]
    ELSE IF Rd(mem, off) = quote /\ Rd(mem, off - 1) # 92 THEN [closed |-> TRUE, off |-> off + 1]
    ELSE LexerString(mem, off + 1, len, quote)

\* The strings and the switch of c89str_lexer_next, reached when the text
\* at the cursor is neither white space nor a comment
LexerStringOrSwitch(mem, lx, options) ==
    LET len == lx.textLen
        off0 == lx.textOff
        s1 == IF Rd(mem, off0) = 34 THEN LexerString(mem, off0 + 1, len, 34)
              ELSE [closed |-> FALSE, off |-> off0]
        off1 == s1.off
        s2 == IF Rd(mem, off1) = 39 THEN LexerString(mem, off1 + 1, len, 39)
              ELSE [closed |-> FALSE, off |-> off1]
        off == s2.off
        ch == Rd(mem, off)
    IN  IF s1.closed
        THEN ReturnToken(c89str_token_type("string_double"), s1.off - lx.textOff)
        ELSE IF s2.closed
        THEN ReturnToken(c89str_token_type("string_double"), s2.off - lx.textOff)
        ELSE IF ch = 48 THEN LexerZero(mem, lx, off)
        ELSE IF ch \in 49..57 THEN LexerDecimal(mem, lx, off)
        ELSE IF ch \in OperatorChars THEN LexerOperator(mem, lx, off)
        ELSE LexerDefault(mem, lx, options, off)

\* The `if (pLexer->options.skip...) { continue; }` that follows the setting
\* of a whitespace, newline or comment token, with whitespace skipped
\* together with the newlines
LexerSkips_whitespace_with_newlines(options, token) ==
    \/ token = c89str_token_type("whitespace")
            /\ (options.skipWhitespace \/ options.skipNewlines)
    \/ token = c89str_token_type("newline") /\ options.skipNewlines
    \/ token = c89str_token_type("comment") /\ options.skipComments

\* The `if (pLexer->options.skip...) { continue; }` that follows the setting
\* of a whitespace, newline or comment token
LexerSkips(options, token) ==
    \/ token = c89str_token_type("whitespace") /\ options.skipWhitespace
    \/ token = c89str_token_type("newline") /\ options.skipNewlines
    \/ token = c89str_token_type("comment") /\ options.skipComments

\* The whitespace branch after the calls of c89str_utf8_ltrim_offset and
\* of c89str_utf8_find_next_line that returned line
LexerWhitespace(whitespaceLen, line) ==
    IF line.asserted THEN Stopped("abort")
    ELSE IF SzLt(whitespaceLen, line.thisLen)
    THEN ReturnToken(c89str_token_type("whitespace"), whitespaceLen)
    ELSE IF line.thisLen # 0
    THEN ReturnToken(c89str_token_type("whitespace"), line.thisLen)
    ELSE ReturnToken(c89str_token_type("newline"), line.nextBeg - line.thisLen)

\* The line comment after the call of c89str_utf8_find_next_line
LexerLineComment(line) ==
    IF line.asserted THEN Stopped("abort")
    ELSE ReturnToken(c89str_token_type("comment"), line.thisLen + 2)

\* The block comment after the call of c89str_findn; off is past the
\* opening token
LexerBlockComment(off, len, search) ==
    IF search.term = "fault" THEN Stopped("fault")
    ELSE IF ~search.found THEN ReturnToken(c89str_token_type("comment"), (len - off) + 2)
    ELSE ReturnToken(c89str_token_type("comment"), search.off + 2 + 2)

\* An iteration of the loop of c89str_lexer_next after the call of
\* c89str_utf8_ltrim_offset, up to the call of c89str_lexer_set_token
LexerClassify(mem, lx, options, whitespaceLen) ==
    LET off == lx.textOff
        len == lx.textLen
    IN  IF whitespaceLen # 0
        THEN LexerWhitespace(whitespaceLen, c89str_utf8_find_next_line(mem, off, len - off))
        ELSE IF c89str_begins_with(mem, off, len - off, << 47, 47 >>)
        THEN LexerLineComment(c89str_utf8_find_next_line(mem, off + 2, len - (off + 2)))
        ELSE IF c89str_begins_with(mem, off, len - off, << 47, 42 >>)
        THEN LexerBlockComment(off + 2, len,
                 c89str_findn(mem, off + 2, len - (off + 2), << 42, 47 >>))
        ELSE LexerStringOrSwitch(mem, lx, options)

\* An iteration of the loop of c89str_lexer_next up to the call of
\* c89str_lexer_set_token; a cursor outside the memory is a fault
LexerIteration(mem, lx, options) ==
    IF lx.textOff = lx.textLen THEN SetToken(c89str_token_type("eof"), 0, ENOMEM)
    ELSE IF lx.textOff >= Len(mem) THEN Stopped("fault")
    ELSE LexerClassify(mem, lx, options,
             c89str_utf8_ltrim_offset(mem, lx.textOff, lx.textLen - lx.textOff))

\* c89str_lexer_next(pLexer), with the comment tokens that c89str_lexer_init
\* sets: the iteration, the call of c89str_lexer_set_token that it comes
\* to, and the `continue` or the return after that call
RECURSIVE c89str_lexer_next(_, _, _)
RECURSIVE LexerSet(_, _, _, _)
RECURSIVE LexerContinue(_, _, _, _, _)
c89str_lexer_next(mem, lx, options) ==
    LexerSet(mem, lx, options, LexerIteration(mem, lx, options))

LexerSet(mem, lx, options, d) ==
    IF d.term # "ret" THEN [lx |-> lx, result |-> 0, term |-> d.term]
    ELSE LexerContinue(mem, lx, options, d,
             c89str_lexer_set_token(mem, lx, d.token, d.tokenLen))

LexerContinue(mem, lx, options, d, set) ==
    IF set.asserted \/ ~LexerSkips(options, d.token) THEN LexerResult(set, d.result)
    ELSE c89str_lexer_next(mem, set.lx, options)

\* ------------------------------------------------------------------------
\* The transformed token
\* ------------------------------------------------------------------------
\* c89str_newn(pAllocationCallbacks, pOther, otherLen) when the allocation
\* succeeds: the bytes of the string, without its terminator
c89str_newn(mem, p, otherLen) ==
    LET n == IF otherLen = NT THEN c89str_strlen(mem, p) ELSE otherLen
    IN  [i \in 1..n |-> Rd(mem, p + (i - 1))]

\* c89str_remove(str, pAllocationCallbacks, beg, end)
c89str_remove(str, beg, end) ==
    LET len == Len(str)
        to == IF end > len THEN len ELSE end
    IN  IF beg > end \/ beg > len \/ to - beg = 0 THEN str
        ELSE SubSeq(str, 1, beg) \o SubSeq(str, to + 1, len)

\* str[i+1] is one of the characters tested in c89str_lexer_unescape_string
Escapable(ch) == ch \in { 13, 10, 9, 12, 34, 39, 92, 0 }

\* The loop of c89str_lexer_unescape_string
RECURSIVE c89str_lexer_unescape_string_walk(_, _)
c89str_lexer_unescape_string_walk(str, i) ==
    IF ~(i < Len(str)) THEN str
    ELSE IF str[i + 1] = 92 /\ i + 1 < Len(str) /\ Escapable(str[i + 2])
    THEN c89str_lexer_unescape_string_walk(c89str_remove(str, i, i + 1), i)
    ELSE c89str_lexer_unescape_string_walk(str, i + 1)

c89str_lexer_unescape_string(mem, pToken, tokenLen) ==
    c89str_lexer_unescape_string_walk(
        IF Among(mem, pToken, { 34, 39 }) /\ (tokenLen >= 2 \/ tokenLen < 0)
        THEN c89str_newn(mem, pToken + 1, tokenLen - 2)
        ELSE c89str_newn(mem, pToken, tokenLen), 0)

\* c89str_ends_with(str1, str1Len, str2, str2Len) for a constant str2
c89str_ends_with(mem, p, str1Len, str2) ==
    LET n == IF str1Len = NT THEN c89str_strlen(mem, p) ELSE str1Len
    IN  /\ ~SzLt(n, Len(str2))
        /\ \A i \in 1..Len(str2) : Rd(mem, p + n - Len(str2) + (i - 1)) = str2[i]

\* No string: *pStr is NULL
NoString == [result |-> 0, null |-> TRUE, str |-> << >>]

\* return c89str_result(*pStr) with the string allocated
NewString(str) == [result |-> C89STR_SUCCESS, null |-> FALSE, str |-> str]

\* c89str_lexer_transform_token(pLexer, &str, pAllocationCallbacks): the
\* value returned and the string stored through pStr
c89str_lexer_transform_token(mem, lx) ==
    IF lx.token = c89str_token_type("error")
    THEN [result |-> EINVAL, null |-> TRUE, str |-> << >>]
    ELSE IF lx.token \in { c89str_token_type("string_double"),
                           c89str_token_type("string_single") }
    THEN NewString(c89str_lexer_unescape_string(mem, lx.tokenOff, lx.tokenLen))
    ELSE IF /\ lx.token = c89str_token_type("comment")
            /\ c89str_begins_with(mem, lx.tokenOff, lx.tokenLen, << 47, 47 >>)
    THEN NewString(c89str_newn(mem, lx.tokenOff + 2, lx.tokenLen - 2))
    ELSE IF /\ lx.token = c89str_token_type("comment")
            /\ c89str_begins_with(mem, lx.tokenOff, lx.tokenLen, << 47, 42 >>)
    THEN NewString(c89str_newn(mem, lx.tokenOff + 2,
             IF c89str_ends_with(mem, lx.tokenOff + 2, lx.tokenLen - 2, << 42, 47 >>)
             THEN lx.tokenLen - 2 - 2 ELSE lx.tokenLen - 2))
    ELSE NewString(c89str_newn(mem, lx.tokenOff, lx.tokenLen))

\* ------------------------------------------------------------------------
\* Paths
\* ------------------------------------------------------------------------
\* c == '\\' || c == '/'
IsSeparator(ch) == ch = 92 \/ ch = 47

\* What a call on the iterator hands back: the value returned, how the call
\* ended ("ret", "loop" when it never returns, "fault" when it reads outside
\* the memory of the path), and the iterator object after it
PathResult(result, term, it) == [result |-> result, term |-> term, it |-> it]

\* The while loop of c89str_path_first: the segmentLength it ends with
RECURSIVE c89str_path_first_walk(_, _, _)
c89str_path_first_walk(mem, pathLen, segmentLength) ==
    IF /\ SzLt(segmentLength, pathLen)
       /\ Rd(mem, segmentLength) # 0
       /\ ~IsSeparator(Rd(mem, segmentLength))
    THEN c89str_path_first_walk(mem, pathLen, segmentLength + 1)
    ELSE segmentLength

c89str_path_first(mem, pathLen) ==
    IF Rd(mem, 0) = 0 \/ pathLen = 0
    THEN PathResult(EINVAL, "ret",
             [fullPathLength |-> 0, segmentOffset |-> 0, segmentLength |-> 0])
    ELSE PathResult(C89STR_SUCCESS, "ret",
             [fullPathLength |-> pathLen, segmentOffset |-> 0,
              segmentLength |-> c89str_path_first_walk(mem, pathLen, 0)])

\* The first loop of c89str_path_next, past the separators: the offset it
\* stops at, and whether it stops with return C89STR_END
RECURSIVE c89str_path_next_skip(_, _, _)
c89str_path_next_skip(mem, fullPathLength, segmentOffset) ==
    IF SzLe(fullPathLength, segmentOffset) \/ Rd(mem, segmentOffset) = 0
    THEN [end |-> TRUE, segmentOffset |-> segmentOffset]
    ELSE IF ~IsSeparator(Rd(mem, segmentOffset))
    THEN [end |-> FALSE, segmentOffset |-> segmentOffset]
    ELSE c89str_path_next_skip(mem, fullPathLength, segmentOffset + 1)

\* The second loop of c89str_path_next: the segmentLength it ends with
RECURSIVE c89str_path_next_walk(_, _, _, _)
c89str_path_next_walk(mem, fullPathLength, segmentOffset, segmentLength) ==
    IF \/ segmentOffset + segmentLength = fullPathLength
       \/ Rd(mem, segmentOffset + segmentLength) = 0
       \/ IsSeparator(Rd(mem, segmentOffset + segmentLength))
    THEN segmentLength
    ELSE c89str_path_next_walk(mem, fullPathLength, segmentOffset, segmentLength + 1)

c89str_path_next(mem, it) ==
    LET skip == c89str_path_next_skip(mem, it.fullPathLength,
                    it.segmentOffset + it.segmentLength)
    IN  IF skip.end
        THEN PathResult(C89STR_END, "ret",
                 [it EXCEPT !.segmentOffset = skip.segmentOffset, !.segmentLength = 0])
        ELSE PathResult(C89STR_SUCCESS, "ret",
                 [it EXCEPT !.segmentOffset = skip.segmentOffset,
                            !.segmentLength =
                                c89str_path_next_walk(mem, it.fullPathLength,
                                    skip.segmentOffset, 0)])

\* The last loop of c89str_path_prev: the segmentOffset it ends with
RECURSIVE c89str_path_prev_walk(_, _)
c89str_path_prev_walk(mem, segmentOffset) ==
    IF segmentOffset = 0 THEN 0
    ELSE IF IsSeparator(Rd(mem, segmentOffset)) THEN segmentOffset + 1
    ELSE c89str_path_prev_walk(mem, segmentOffset - 1)

\* c89str_path_prev(pIterator). The first loop decrements segmentOffset and
\* never offsetEnd, the variable its two exits test: it leaves at once, or
\* never. offsetEnd = segmentOffset - 1 on size_t; an offsetEnd outside the
\* memory of the path is a read outside it
c89str_path_prev(mem, it) ==
    LET offsetEnd == it.segmentOffset - 1
        reset == [it EXCEPT !.segmentLength = 0]
        segmentOffset == c89str_path_prev_walk(mem, offsetEnd)
    IN  IF it.segmentOffset = 0 THEN PathResult(C89STR_END, "ret", it)
        ELSE IF offsetEnd = 0 THEN
            IF IsSeparator(Rd(mem, 0))
            THEN PathResult(C89STR_SUCCESS, "ret", reset)
            ELSE PathResult(C89STR_END, "ret", reset)
        ELSE IF offsetEnd < 0 \/ offsetEnd >= Len(mem) THEN PathResult(0, "fault", reset)
        ELSE IF ~IsSeparator(Rd(mem, offsetEnd)) THEN PathResult(0, "loop", reset)
        ELSE PathResult(C89STR_SUCCESS, "ret",
                 [it EXCEPT !.segmentOffset = segmentOffset,
                            !.segmentLength = (offsetEnd + 1) - segmentOffset])

c89str_path_last(mem, pathLen) ==
    IF pathLen = 0 \/ Rd(mem, 0) = 0
    THEN PathResult(EINVAL, "ret",
             [fullPathLength |-> 0, segmentOffset |-> 0, segmentLength |-> 0])
    ELSE c89str_path_prev(mem,
             [fullPathLength |-> IF pathLen = NT THEN c89str_strlen(mem, 0) ELSE pathLen,
              segmentOffset |-> pathLen, segmentLength |-> 0])

\* ------------------------------------------------------------------------
\* Bounds and inputs
\* ------------------------------------------------------------------------
\* An input is at most MaxChunks chunks long, followed in memory by PadLen
\* zero units; a destination has 0..MaxCap units.
MaxChunks == 2
PadLen == 4
MaxCap == 9

\* "A", a zero unit, the octet C1, a lone continuation byte, U+00E9, U+20AC,
\* the encoded surrogate U+D800, U+1F600, the encoded 0x110000, the BOM
Utf8Chunks ==
    { << 65 >>, << 0 >>, << 193 >>, << 128 >>, << 195, 169 >>, << 226, 130, 172 >>,
      << 237, 160, 128 >>, << 240, 159, 152, 128 >>, << 244, 144, 128, 128 >>,
      << 239, 187, 191 >> }

\* "A", a zero unit, U+20AC, the pair of U+1F600, a lone high and a lone low
\* surrogate, U+FEFF and its byte-swapped form U+FFFE
Utf16Chunks ==
    { << 65 >>, << 0 >>, << 8364 >>, << 55357, 56832 >>, << 55357 >>, << 56832 >>,
      << 65279 >>, << 65534 >> }

\* "A", "BCD", a zero unit, U+1F600, the surrogate 0xD800, 0x110000, U+FEFF
\* and its byte-swapped form 0xFFFE0000
Utf32Chunks ==
    { << 65 >>, << 66, 67, 68 >>, << 0 >>, << 128512 >>, << 55296 >>, << 1114112 >>,
      << 65279 >>, << Make32(255, 254, 0, 0) >> }

ChunksOf(enc) ==
    IF enc = "utf8" THEN Utf8Chunks ELSE IF enc = "utf16" THEN Utf16Chunks ELSE Utf32Chunks

\* The sequences of at most n chunks
RECURSIVE ChunkSeqs(_, _)
ChunkSeqs(enc, n) ==
    IF n = 0 THEN { << >> }
    ELSE LET shorter == ChunkSeqs(enc, n - 1)
         IN  shorter \cup { Append(cs, ch) : cs \in shorter, ch \in ChunksOf(enc) }

RECURSIVE Flatten(_)
Flatten(cs) == IF cs = << >> THEN << >> ELSE Head(cs) \o Flatten(Tail(cs))

Pad == [k \in 1..PadLen |-> 0]

\* The memory the source pointer points into
Memory(units) == units \o Pad

Encodings == { "utf8", "utf16", "utf32" }
VariantsOf(enc) == IF enc = "utf8" THEN { "ne" } ELSE { "ne", "auto" }
FlagSets == { 0, C89STR_FORBID_BOM, C89STR_ERROR_ON_INVALID_CODE_POINT,
              C89STR_FORBID_BOM + C89STR_ERROR_ON_INVALID_CODE_POINT }

\* No call made yet
Idle ==
    [term |-> "none", res |-> C89STR_SUCCESS, outLen |-> 0, processed |-> 0,
     pset |-> FALSE, top |-> 0, out |-> << >>, nul |-> FALSE]

\* ------------------------------------------------------------------------
\* The state machine: a caller measures an input, converts it into a
\* destination of some capacity, and converts the output back.
\* ------------------------------------------------------------------------
VARIABLES src, dst, variant, hostLE, chunks, len, flags, pc, cap, dstNull, m, c, back,
          pText, textLen, options, pLexer, calls, pStr, ret, pIterator

vars == << src, dst, variant, hostLE, chunks, len, flags, pc, cap, dstNull, m, c, back,
           pText, textLen, options, pLexer, calls, pStr, ret, pIterator >>

input == << src, dst, variant, hostLE, chunks, len, flags >>

mem == Memory(Flatten(chunks))

\* The variables of the lexer: the memory pText points into, the textLen
\* handed to c89str_lexer_init, the options, the c89str_lexer object, the
\* calls of c89str_lexer_next made so far, what the call of
\* c89str_lexer_transform_token gave, what the call of a string function
\* returned, and the c89str_path_iterator object
lexer == << pText, textLen, options, pLexer, calls, pStr, ret, pIterator >>

\* The c89str_path_iterator object before c89str_path_first or c89str_path_last
NoIterator == [fullPathLength |-> 0, segmentOffset |-> 0, segmentLength |-> 0]

\* No string function has been called
NotCalled == [fn |-> "none"]

NoOptions ==
    [skipWhitespace |-> FALSE, skipNewlines |-> FALSE, skipComments |-> FALSE,
     allowDashesInIdentifiers |-> FALSE]

\* The c89str_lexer object before c89str_lexer_init
NoLexerObject ==
    [textLen |-> 0, textOff |-> 0, tokenOff |-> 0, tokenLen |-> 0, token |-> 0, lineNumber |-> 0]

\* No lexer is in use
NoLexer ==
    /\ pText = << >>
    /\ textLen = 0
    /\ options = NoOptions
    /\ pLexer = NoLexerObject
    /\ calls = << >>
    /\ pStr = NoString
    /\ ret = NotCalled
    /\ pIterator = NoIterator

Init ==
    /\ src \in Encodings
    /\ dst \in Encodings \ { src }
    /\ variant \in VariantsOf(src)
    /\ hostLE \in BOOLEAN
    /\ chunks \in ChunkSeqs(src, MaxChunks)
    /\ len \in { NT } \cup (0..Len(Flatten(chunks)))
    /\ flags \in FlagSets
    /\ pc = "init"
    /\ cap = 0
    /\ dstNull = FALSE
    /\ m = Idle
    /\ c = Idle
    /\ back = Idle
    /\ NoLexer

\* The caller asks for the length: the *_len function of the direction
Measure ==
    /\ pc = "init"
    /\ m' = MeasureCall(hostLE, src, dst, variant, mem, len, flags)
    /\ pc' = "measured"
    /\ UNCHANGED << input, cap, dstNull, c, back >>
    /\ UNCHANGED lexer

\* The caller converts, into a destination of capacity cap' or with a NULL
\* destination
Convert ==
    /\ pc = "measured"
    /\ \E k \in 0..MaxCap, null \in BOOLEAN :
        /\ null => k = 0
        /\ cap' = k
        /\ dstNull' = null
        /\ c' = ConvertCall(hostLE, src, dst, variant, null, k, mem, len, flags)
    /\ pc' = "converted"
    /\ UNCHANGED << input, m, back >>
    /\ UNCHANGED lexer

\* The caller converts the output of a successful conversion back with the
\* native-endian function of the opposite direction: explicit length, no
\* flags, room for MaxCap units.
ConvertBack ==
    /\ pc = "converted"
    /\ c.term = "ret" /\ c.res = C89STR_SUCCESS /\ ~dstNull
    /\ back' = ConvertCall(hostLE, dst, src, "ne", FALSE, MaxCap,
                           Memory(IF c.nul THEN Append(c.out, 0) ELSE c.out), Len(c.out), 0)
    /\ pc' = "back"
    /\ UNCHANGED << input, cap, dstNull, m, c >>
    /\ UNCHANGED lexer

Next == Measure \/ Convert \/ ConvertBack

Spec == Init /\ [][Next]_vars

\* ------------------------------------------------------------------------
\* A second state machine: a caller converts one code point above U+FFFF
\* from UTF-32 of an explicit byte order to UTF-16 of the same order, and
\* converts the units written back to UTF-32 and to UTF-8.
\* ------------------------------------------------------------------------
PairSamples == 64
SampleStride == 16411

\* The code points above U+FFFF tried: the ends of the range, the ends of
\* the ranges of the two surrogates, and a sample in between
SupplementaryCodePoints ==
    { 65536, 65537, 66559, 66560, 128512, 1048575, 1048576, 1113088, 1114111 }
        \cup { cp \in { 65536 + k * SampleStride : k \in 0..PairSamples } : cp <= 1114111 }

\* A unit as it lies in memory when it holds the value n in the byte order
InOrder32(host, isLE, n) ==
    IF isLE THEN c89str_host2le_32(host, n) ELSE c89str_host2be_32(host, n)

InitPair ==
    /\ src = "utf32"
    /\ dst = "utf16"
    /\ variant \in { "le", "be" }
    /\ hostLE \in BOOLEAN
    /\ \E cp \in SupplementaryCodePoints :
            chunks = << << InOrder32(hostLE, variant = "le", cp) >> >>
    /\ len \in { NT, 1 }
    /\ flags \in FlagSets
    /\ pc = "init"
    /\ cap = 0
    /\ dstNull = FALSE
    /\ m = Idle
    /\ c = Idle
    /\ back = Idle
    /\ NoLexer

\* c89str_utf32le_to_utf16le, resp. c89str_utf32be_to_utf16be
EncodePair ==
    /\ pc = "init"
    /\ cap' = MaxCap
    /\ c' = ConvertCall(hostLE, src, dst, variant, FALSE, MaxCap, mem, len, flags)
    /\ pc' = "converted"
    /\ UNCHANGED << input, dstNull, m, back >>
    /\ UNCHANGED lexer

\* c89str_utf16le_to_utf32le, resp. c89str_utf16be_to_utf32be, on the units
\* written
DecodePairToUtf32 ==
    /\ pc = "converted"
    /\ c.term = "ret" /\ c.res = C89STR_SUCCESS
    /\ back' = ConvertCall(hostLE, "utf16", "utf32", variant, FALSE, MaxCap,
                           Memory(c.out), Len(c.out), flags)
    /\ pc' = "back32"
    /\ UNCHANGED << input, cap, dstNull, m, c >>
    /\ UNCHANGED lexer

\* c89str_utf16le_to_utf8, resp. c89str_utf16be_to_utf8, on the units written
DecodePairToUtf8 ==
    /\ pc = "converted"
    /\ c.term = "ret" /\ c.res = C89STR_SUCCESS
    /\ back' = ConvertCall(hostLE, "utf16", "utf8", variant, FALSE, MaxCap,
                           Memory(c.out), Len(c.out), flags)
    /\ pc' = "back8"
    /\ UNCHANGED << input, cap, dstNull, m, c >>
    /\ UNCHANGED lexer

NextPair == EncodePair \/ DecodePairToUtf32 \/ DecodePairToUtf8

SpecPair == InitPair /\ [][NextPair]_vars

\* ------------------------------------------------------------------------
\* A third state machine: a caller initialises a lexer on a text, null
\* terminated or a slice of the memory given by its length, sets the
\* options, and calls c89str_lexer_next again and again.
\* ------------------------------------------------------------------------
MaxLexChunks == 2
MaxCalls == 8

\* A space, LF, CR, CR LF, "//", "/*", "*/", a block comment over two lines,
\* "//a", the two quotes, a string over two lines, 'a', a string of an
\* escaped quote, "a", "a-b", "1", "0", "0x", ".", "..", "e", "1e", "=",
\* "<<", U+00E9, its first octet alone, the BOM
LexChunks ==
    { << 32 >>, << 10 >>, << 13 >>, << 13, 10 >>, << 47, 47 >>, << 47, 42 >>, << 42, 47 >>,
      << 47, 42, 10, 42, 47 >>, << 47, 47, 97 >>, << 34 >>, << 39 >>, << 34, 10, 34 >>,
      << 39, 97, 39 >>, << 34, 92, 34 >>, << 97 >>, << 97, 45, 98 >>, << 49 >>, << 48 >>,
      << 48, 120 >>, << 46 >>, << 46, 46 >>, << 101 >>, << 49, 101 >>, << 61 >>,
      << 60, 60 >>, << 195, 169 >>, << 195 >>, << 239, 187, 191 >> }

\* The sequences of at most n chunks of text
RECURSIVE LexChunkSeqs(_)
LexChunkSeqs(n) ==
    IF n = 0 THEN { << >> }
    ELSE LET shorter == LexChunkSeqs(n - 1)
         IN  shorter \cup { Append(cs, ch) : cs \in shorter, ch \in LexChunks }

\* The text lies in memory followed by zero bytes; the caller hands over
\* the whole of it as a null-terminated string, or the first chunks of it
\* by their length, the rest being the bytes that follow the slice
InitLexer ==
    /\ src = "utf8" /\ dst = "utf32" /\ variant = "ne" /\ hostLE = TRUE
    /\ chunks = << >> /\ len = 0 /\ flags = 0
    /\ cap = 0 /\ dstNull = FALSE
    /\ m = Idle /\ c = Idle /\ back = Idle
    /\ pc = "uninit"
    /\ \E cs \in LexChunkSeqs(MaxLexChunks) :
        /\ pText = Memory(Flatten(cs))
        /\ textLen \in { NT } \cup { Len(Flatten(SubSeq(cs, 1, k))) : k \in 0..Len(cs) }
    /\ options \in [skipWhitespace : BOOLEAN, skipNewlines : BOOLEAN,
                     skipComments : BOOLEAN, allowDashesInIdentifiers : BOOLEAN]
    /\ pLexer = NoLexerObject
    /\ calls = << >>
    /\ pStr = NoString
    /\ ret = NotCalled
    /\ pIterator = NoIterator

\* c89str_lexer_init(&lexer, pText, textLen), and the caller's options
LexerInit ==
    /\ pc = "uninit"
    /\ pLexer' = c89str_lexer_init(pText, textLen)
    /\ pc' = "lexing"
    /\ UNCHANGED << input, cap, dstNull, m, c, back, pText, textLen, options, calls, pStr, ret, pIterator >>

\* One call of c89str_lexer_next as the caller sees it: the cursor and the
\* line before the call, the value returned, how the call ended, and the
\* lexer object after it
CallRecord(before, r) ==
    [from |-> before.textOff, line |-> before.lineNumber,
     result |-> r.result, term |-> r.term, lx |-> r.lx]

\* c89str_lexer_next(&lexer), as long as the calls before it returned
LexerNext ==
    /\ pc = "lexing"
    /\ Len(calls) < MaxCalls
    /\ calls # << >> => calls[Len(calls)].term = "ret"
    /\ LET r == c89str_lexer_next(pText, pLexer, options)
       IN  /\ pLexer' = r.lx
           /\ calls' = Append(calls, CallRecord(pLexer, r))
    /\ UNCHANGED << input, pc, cap, dstNull, m, c, back, pText, textLen, options, pStr, ret, pIterator >>

NextLexer == LexerInit \/ LexerNext

SpecLexer == InitLexer /\ [][NextLexer]_vars

\* ------------------------------------------------------------------------
\* A fourth state machine: a caller lexes a null-terminated text that opens
\* with a quote and transforms the tokens with c89str_lexer_transform_token.
\* ------------------------------------------------------------------------
MaxBodyChunks == 3

\* A backslash, "n", "a", the two quotes, LF, and the backslash followed by
\* "n", "t", "0", a double quote, a backslash
BodyChunks ==
    { << 92 >>, << 110 >>, << 97 >>, << 34 >>, << 39 >>, << 10 >>, << 92, 110 >>,
      << 92, 116 >>, << 92, 48 >>, << 92, 34 >>, << 92, 92 >> }

RECURSIVE BodyChunkSeqs(_)
BodyChunkSeqs(n) ==
    IF n = 0 THEN { << >> }
    ELSE LET shorter == BodyChunkSeqs(n - 1)
         IN  shorter \cup { Append(cs, ch) : cs \in shorter, ch \in BodyChunks }

InitTransform ==
    /\ src = "utf8" /\ dst = "utf32" /\ variant = "ne" /\ hostLE = TRUE
    /\ chunks = << >> /\ len = 0 /\ flags = 0
    /\ cap = 0 /\ dstNull = FALSE
    /\ m = Idle /\ c = Idle /\ back = Idle
    /\ pc = "uninit"
    /\ \E quote \in { 34, 39 }, cs \in BodyChunkSeqs(MaxBodyChunks) :
            pText = Memory(<< quote >> \o Flatten(cs) \o << quote >>)
    /\ textLen = NT
    /\ options = NoOptions
    /\ pLexer = NoLexerObject
    /\ calls = << >>
    /\ pStr = NoString
    /\ ret = NotCalled
    /\ pIterator = NoIterator

\* c89str_lexer_transform_token(&lexer, &str, NULL) on the token that the
\* last call of c89str_lexer_next returned
LexerTransformToken ==
    /\ pc = "lexing"
    /\ calls # << >> /\ calls[Len(calls)].term = "ret"
    /\ pStr' = c89str_lexer_transform_token(pText, pLexer)
    /\ pc' = "transformed"
    /\ UNCHANGED << input, cap, dstNull, m, c, back, pText, textLen, options, pLexer, calls, ret, pIterator >>

NextTransform == LexerInit \/ LexerNext \/ LexerTransformToken

SpecTransform == InitTransform /\ [][NextTransform]_vars

\* ------------------------------------------------------------------------
\* A fifth state machine: the lexer on texts with white space of two and
\* three bytes (U+00A0, U+2028, U+3000), letters, a byte order mark and a
\* lead byte without its continuation.
\* ------------------------------------------------------------------------
MaxSpaceChunks == 3

SpaceChunks ==
    { << 32 >>, << 10 >>, << 97 >>, << 49 >>, << 194, 160 >>, << 226, 128, 168 >>,
      << 227, 128, 128 >>, << 195, 169 >>, << 195 >>, << 239, 187, 191 >> }

RECURSIVE SpaceChunkSeqs(_)
SpaceChunkSeqs(n) ==
    IF n = 0 THEN { << >> }
    ELSE LET shorter == SpaceChunkSeqs(n - 1)
         IN  shorter \cup { Append(cs, ch) : cs \in shorter, ch \in SpaceChunks }

InitSpaces ==
    /\ src = "utf8" /\ dst = "utf32" /\ variant = "ne" /\ hostLE = TRUE
    /\ chunks = << >> /\ len = 0 /\ flags = 0
    /\ cap = 0 /\ dstNull = FALSE
    /\ m = Idle /\ c = Idle /\ back = Idle
    /\ pc = "uninit"
    /\ \E cs \in SpaceChunkSeqs(MaxSpaceChunks) :
        /\ pText = Memory(Flatten(cs))
        /\ textLen \in { NT } \cup { Len(Flatten(SubSeq(cs, 1, k))) : k \in 0..Len(cs) }
    /\ options \in [skipWhitespace : BOOLEAN, skipNewlines : BOOLEAN,
                     skipComments : { FALSE }, allowDashesInIdentifiers : { FALSE }]
    /\ pLexer = NoLexerObject
    /\ calls = << >>
    /\ pStr = NoString
    /\ ret = NotCalled
    /\ pIterator = NoIterator

SpecSpaces == InitSpaces /\ [][NextLexer]_vars

\* ------------------------------------------------------------------------
\* A sixth state machine: a caller hands a buffer of well-formed UTF-8, by
\* its length or null-terminated, to c89str_utf8_find_next_line or to
\* c89str_utf8_is_null_or_whitespace.
\* ------------------------------------------------------------------------
MaxStrChunks == 3

\* "a", space, LF, CR, U+0085, U+00A0, U+2028, U+3000, U+00E9, U+FEFF
StrChunks ==
    { << 97 >>, << 32 >>, << 10 >>, << 13 >>, << 194, 133 >>, << 194, 160 >>,
      << 226, 128, 168 >>, << 227, 128, 128 >>, << 195, 169 >>, << 239, 187, 191 >> }

RECURSIVE StrChunkSeqs(_)
StrChunkSeqs(n) ==
    IF n = 0 THEN { << >> }
    ELSE LET shorter == StrChunkSeqs(n - 1)
         IN  shorter \cup { Append(cs, ch) : cs \in shorter, ch \in StrChunks }

InitStrings ==
    /\ src = "utf8" /\ dst = "utf32" /\ variant = "ne" /\ hostLE = TRUE
    /\ chunks = << >> /\ len = 0 /\ flags = 0
    /\ cap = 0 /\ dstNull = FALSE
    /\ m = Idle /\ c = Idle /\ back = Idle
    /\ pc = "init"
    /\ \E cs \in StrChunkSeqs(MaxStrChunks) :
        /\ pText = Memory(Flatten(cs))
        /\ textLen \in { NT } \cup { Len(Flatten(SubSeq(cs, 1, k))) : k \in 0..Len(cs) }
    /\ options = NoOptions
    /\ pLexer = NoLexerObject
    /\ calls = << >>
    /\ pStr = NoString
    /\ ret = NotCalled
    /\ pIterator = NoIterator

\* nextBeg = c89str_utf8_find_next_line(pText, textLen, &thisLen)
FindNextLine ==
    /\ pc = "init"
    /\ ret' = [fn |-> "c89str_utf8_find_next_line",
               line |-> c89str_utf8_find_next_line(pText, 0, textLen)]
    /\ pc' = "called"
    /\ UNCHANGED << input, cap, dstNull, m, c, back, pText, textLen, options, pLexer, calls, pStr, pIterator >>

\* c89str_utf8_is_null_or_whitespace(pText, textLen)
IsNullOrWhitespace ==
    /\ pc = "init"
    /\ ret' = [fn |-> "c89str_utf8_is_null_or_whitespace",
               value |-> c89str_utf8_is_null_or_whitespace(pText, 0, textLen)]
    /\ pc' = "called"
    /\ UNCHANGED << input, cap, dstNull, m, c, back, pText, textLen, options, pLexer, calls, pStr, pIterator >>

NextStrings == FindNextLine \/ IsNullOrWhitespace

SpecStrings == InitStrings /\ [][NextStrings]_vars

\* ------------------------------------------------------------------------
\* A seventh state machine: a caller hands a buffer of 16-bit or 32-bit
\* units and a count, or (size_t)-1, to c89str_utf16_swap_endian or
\* c89str_utf32_swap_endian. The memory after the buffer is zero.
\* ------------------------------------------------------------------------
MaxSwapUnits == 3

\* 0, 0x0041, 0x0100, 0x1234, 0xFFFE; 0, 0x41, 0x01000000, 0x12345678,
\* 0xFFFE0000
SwapUnits(enc) ==
    IF enc = "utf16" THEN { 0, 65, 256, 4660, 65534 }
    ELSE { 0, 65, Make32(1, 0, 0, 0), Make32(18, 52, 86, 120), Make32(255, 254, 0, 0) }

RECURSIVE SwapBuffers(_, _)
SwapBuffers(enc, n) ==
    IF n = 0 THEN { << >> }
    ELSE LET shorter == SwapBuffers(enc, n - 1)
         IN  shorter \cup { Append(cs, << u >>) : cs \in shorter, u \in SwapUnits(enc) }

InitSwap ==
    /\ src \in { "utf16", "utf32" }
    /\ dst = "utf8" /\ variant = "ne" /\ hostLE = TRUE
    /\ chunks \in SwapBuffers(src, MaxSwapUnits)
    /\ len \in { NT } \cup (0..Len(chunks))
    /\ flags = 0
    /\ cap = 0 /\ dstNull = FALSE
    /\ m = Idle /\ c = Idle /\ back = Idle
    /\ pc = "init"
    /\ NoLexer

\* c89str_utf16_swap_endian(p, len)
Utf16SwapEndian ==
    /\ pc = "init" /\ src = "utf16"
    /\ ret' = [fn |-> "c89str_utf16_swap_endian", swapped |-> c89str_utf16_swap_endian(mem, len)]
    /\ pc' = "called"
    /\ UNCHANGED << input, cap, dstNull, m, c, back, pText, textLen, options, pLexer, calls, pStr, pIterator >>

\* c89str_utf32_swap_endian(p, len)
Utf32SwapEndian ==
    /\ pc = "init" /\ src = "utf32"
    /\ ret' = [fn |-> "c89str_utf32_swap_endian", swapped |-> c89str_utf32_swap_endian(mem, len)]
    /\ pc' = "called"
    /\ UNCHANGED << input, cap, dstNull, m, c, back, pText, textLen, options, pLexer, calls, pStr, pIterator >>

NextSwap == Utf16SwapEndian \/ Utf32SwapEndian

SpecSwap == InitSwap /\ [][NextSwap]_vars

\* ------------------------------------------------------------------------
\* An eighth state machine: a caller walks the segments of a path, forwards
\* with c89str_path_first and c89str_path_next or backwards with
\* c89str_path_last and c89str_path_prev, as long as the calls return
\* C89STR_SUCCESS.
\* ------------------------------------------------------------------------
MaxPathLen == 4
MaxPathCalls == 6

\* "a", "b", "/" and the backslash
PathChars == { 97, 98, 47, 92 }

RECURSIVE Paths(_)
Paths(n) ==
    IF n = 0 THEN { << >> }
    ELSE LET shorter == Paths(n - 1)
         IN  shorter \cup { Append(path, ch) : path \in shorter, ch \in PathChars }

InitPath ==
    /\ src = "utf8" /\ dst = "utf32" /\ variant = "ne" /\ hostLE = TRUE
    /\ chunks = << >> /\ len = 0 /\ flags = 0
    /\ cap = 0 /\ dstNull = FALSE
    /\ m = Idle /\ c = Idle /\ back = Idle
    /\ pc = "init"
    /\ \E path \in Paths(MaxPathLen) :
        /\ pText = Memory(path)
        /\ textLen \in { NT, Len(path) }
    /\ options = NoOptions
    /\ pLexer = NoLexerObject
    /\ calls = << >>
    /\ pStr = NoString
    /\ ret = NotCalled
    /\ pIterator = NoIterator

\* One call on the iterator as the caller sees it
PathCall(fn, r) == [fn |-> fn, result |-> r.result, term |-> r.term, it |-> r.it]

\* The calls so far returned C89STR_SUCCESS and another call fits the bound
PathGoesOn ==
    /\ calls # << >> /\ Len(calls) < MaxPathCalls
    /\ calls[Len(calls)].term = "ret" /\ calls[Len(calls)].result = C89STR_SUCCESS

\* c89str_path_first(pText, textLen, &iterator)
PathFirst ==
    /\ pc = "init"
    /\ LET r == c89str_path_first(pText, textLen)
       IN  pIterator' = r.it /\ calls' = << PathCall("c89str_path_first", r) >>
    /\ pc' = "forwards"
    /\ UNCHANGED << input, cap, dstNull, m, c, back, pText, textLen, options, pLexer, pStr, ret >>

\* c89str_path_next(&iterator)
PathNext ==
    /\ pc = "forwards" /\ PathGoesOn
    /\ LET r == c89str_path_next(pText, pIterator)
       IN  pIterator' = r.it /\ calls' = Append(calls, PathCall("c89str_path_next", r))
    /\ UNCHANGED << input, pc, cap, dstNull, m, c, back, pText, textLen, options, pLexer, pStr, ret >>

\* c89str_path_last(pText, textLen, &iterator)
PathLast ==
    /\ pc = "init"
    /\ LET r == c89str_path_last(pText, textLen)
       IN  pIterator' = r.it /\ calls' = << PathCall("c89str_path_last", r) >>
    /\ pc' = "backwards"
    /\ UNCHANGED << input, cap, dstNull, m, c, back, pText, textLen, options, pLexer, pStr, ret >>

\* c89str_path_prev(&iterator)
PathPrev ==
    /\ pc = "backwards" /\ PathGoesOn
    /\ LET r == c89str_path_prev(pText, pIterator)
       IN  pIterator' = r.it /\ calls' = Append(calls, PathCall("c89str_path_prev", r))
    /\ UNCHANGED << input, pc, cap, dstNull, m, c, back, pText, textLen, options, pLexer, pStr, ret >>

NextPath == PathFirst \/ PathNext \/ PathLast \/ PathPrev

SpecPath == InitPath /\ [][NextPath]_vars

\* ------------------------------------------------------------------------
\* Notions the properties are stated with
\* ------------------------------------------------------------------------
body == Flatten(chunks)

Surrogate(u) == u >= 55296 /\ u <= 57343
Scalar(u) == u >= 0 /\ u <= 1114111 /\ ~Surrogate(u)
Continuation(b) == b >= 128 /\ b <= 191

\* ch is the well-formed UTF-8 encoding of one non-zero code point
Utf8Scalar(ch) ==
    \/ Len(ch) = 1 /\ ch[1] >= 1 /\ ch[1] <= 127
    \/ Len(ch) = 2 /\ ch[1] >= 194 /\ ch[1] <= 223 /\ Continuation(ch[2])
    \/ /\ Len(ch) = 3 /\ ch[1] >= 224 /\ ch[1] <= 239
       /\ Continuation(ch[2]) /\ Continuation(ch[3])
       /\ Decode3(ch[1], ch[2], ch[3]) >= 2048 /\ Scalar(Decode3(ch[1], ch[2], ch[3]))
    \/ /\ Len(ch) = 4 /\ ch[1] >= 240 /\ ch[1] <= 244
       /\ Continuation(ch[2]) /\ Continuation(ch[3]) /\ Continuation(ch[4])
       /\ Decode4(ch[1], ch[2], ch[3], ch[4]) >= 65536
       /\ Scalar(Decode4(ch[1], ch[2], ch[3], ch[4]))

\* ch is the well-formed UTF-16 encoding, in the host's byte order, of one
\* non-zero code point
Utf16Scalar(ch) ==
    \/ Len(ch) = 1 /\ ch[1] >= 1 /\ ~Surrogate(ch[1])
    \/ Len(ch) = 2 /\ ch[1] >= 55296 /\ ch[1] <= 56319 /\ ch[2] >= 56320 /\ ch[2] <= 57343

\* ch is a run of non-zero code points in the host's byte order
Utf32Scalars(ch) == \A k \in DOMAIN ch : ch[k] # 0 /\ Scalar(ch[k])

\* ch is a byte-order mark of the encoding; NativeBom: in the host's order
NativeBom(enc, ch) ==
    IF enc = "utf8" THEN ch = << 239, 187, 191 >> ELSE ch = << 65279 >>

BomChunk(enc, ch) ==
    \/ NativeBom(enc, ch)
    \/ enc = "utf16" /\ ch = << 65534 >>
    \/ enc = "utf32" /\ ch = << Make32(255, 254, 0, 0) >>

\* ch is well-formed text of the encoding that is no byte-order mark
TextChunk(enc, ch) ==
    /\ ~BomChunk(enc, ch)
    /\ IF enc = "utf8" THEN Utf8Scalar(ch)
       ELSE IF enc = "utf16" THEN Utf16Scalar(ch)
       ELSE Utf32Scalars(ch)

\* The code points a chunk of text stands for
CodePoints(enc, ch) ==
    IF enc = "utf32" THEN ch
    ELSE IF enc = "utf16" THEN
        IF Len(ch) = 1 THEN ch
        ELSE << 65536 + (ch[1] - 55296) * 1024 + (ch[2] - 56320) >>
    ELSE IF Len(ch) = 1 THEN ch
    ELSE IF Len(ch) = 2 THEN << Decode2(ch[1], ch[2]) >>
    ELSE IF Len(ch) = 3 THEN << Decode3(ch[1], ch[2], ch[3]) >>
    ELSE << Decode4(ch[1], ch[2], ch[3], ch[4]) >>

\* The units a code point takes in an encoding
UnitsFor(enc, cp) ==
    IF enc = "utf32" THEN 1
    ELSE IF enc = "utf16" THEN (IF cp < 65536 THEN 1 ELSE 2)
    ELSE IF cp < 128 THEN 1 ELSE IF cp < 2048 THEN 2 ELSE IF cp < 65536 THEN 3 ELSE 4

RECURSIVE UnitsForAll(_, _)
UnitsForAll(enc, cps) ==
    IF cps = << >> THEN 0 ELSE UnitsFor(enc, Head(cps)) + UnitsForAll(enc, Tail(cps))

\* The units the text chunks cs (of encoding from) take in encoding to
RECURSIVE EncodedLen(_, _, _)
EncodedLen(from, to, cs) ==
    IF cs = << >> THEN 0
    ELSE UnitsForAll(to, CodePoints(from, Head(cs))) + EncodedLen(from, to, Tail(cs))

\* The whole of the chunks is handed over, null terminated or by its length
WholeInput == len = NT \/ len = Len(body)

\* Well-formed, non-empty text without a byte-order mark, handed over whole
ValidInput ==
    /\ chunks # << >>
    /\ \A k \in DOMAIN chunks : TextChunk(src, chunks[k])
    /\ WholeInput

\* No source unit yields more destination units than this
MaxExpand ==
    IF src = "utf8" THEN 1
    ELSE IF src = "utf16" THEN (IF dst = "utf8" THEN 3 ELSE 1)
    ELSE IF dst = "utf8" THEN 4 ELSE 2

\* The destination has room for whatever the memory at the source holds,
\* and for the terminator
RoomForAll == ~dstNull /\ cap >= MaxExpand * Len(body) + 1

Called(r) == r.term # "none"

\* The two calls returned and report the same result code, output length and
\* processed length
SameReport(r1, r2) ==
    /\ r1.term = "ret" /\ r2.term = "ret"
    /\ r1.res = r2.res
    /\ r1.outLen = r2.outLen
    /\ r1.pset = r2.pset
    /\ r1.pset => r1.processed = r2.processed

\* ------------------------------------------------------------------------
\* Properties
\* ------------------------------------------------------------------------
\* C1: for every direction, input and flag combination, the measure call and
\* the convert call with a non-null destination that is large enough for the
\* whole output and the terminator return the same result code, the same
\* output length and the same processed length.
C1_MeasureConvertAgree ==
    (Called(c) /\ RoomForAll) => SameReport(m, c)

\* The units the convert call stored through the destination pointer,
\* terminator included
Stored(r) == Len(r.out) + (IF r.nul THEN 1 ELSE 0)

\* C2: for every direction and every valid input whose measured output
\* length is n > 0, the convert call with a non-null destination of a
\* capacity below n (0 included) returns ENOMEM and stores no destination
\* unit at an index at or above the capacity.
C2_ShortCapacityFails ==
    (/\ Called(c) /\ ~dstNull /\ ValidInput
     /\ m.term = "ret" /\ m.outLen > 0 /\ cap < m.outLen)
        => (c.term = "ret" /\ c.res = ENOMEM /\ Stored(c) <= cap)

\* C3: for every direction and every valid input, the convert call with a
\* non-null destination of exactly the measured output length reports that
\* output length.
C3_ExactCapacityLength ==
    (Called(c) /\ ~dstNull /\ ValidInput /\ m.term = "ret" /\ cap = m.outLen)
        => (c.term = "ret" /\ c.outLen = m.outLen)

\* C4: a convert call with a NULL destination returns, and returns the result
\* code, output length and processed length of the measure call on the same
\* input and flags, in all six directions.
C4_NullDestinationMeasures ==
    (Called(c) /\ dstNull) => SameReport(m, c)

\* The input is text whose last code point takes several units, and the
\* given length ends inside that code point
CutOff ==
    /\ chunks # << >>
    /\ \A k \in DOMAIN chunks : TextChunk(src, chunks[k])
    /\ src \in { "utf8", "utf16" }
    /\ len # NT
    /\ len < Len(body)
    /\ len > Len(body) - Len(chunks[Len(chunks)])

\* C5: for an explicit-length input whose last code point is cut off, the
\* measure call and the convert call return EINVAL under every flag
\* combination and read no source unit at an index at or above the length.
C5_CutOffIsInvalidArgument ==
    /\ (Called(m) /\ CutOff)
            => (m.term = "ret" /\ m.res = EINVAL /\ m.top <= len)
    /\ (Called(c) /\ CutOff /\ RoomForAll)
            => (c.term = "ret" /\ c.res = EINVAL /\ c.top <= len)

\* The units are code points, resp. UTF-16 with every surrogate paired
RECURSIVE WellFormed(_, _)
WellFormed(enc, units) ==
    IF units = << >> THEN TRUE
    ELSE IF enc = "utf32" \/ ~Surrogate(Head(units))
    THEN Scalar(Head(units)) /\ WellFormed(enc, Tail(units))
    ELSE /\ Len(units) >= 2
         /\ units[1] <= 56319
         /\ units[2] >= 56320 /\ units[2] <= 57343
         /\ WellFormed(enc, Tail(Tail(units)))

\* The input is one malformed UTF-8 sequence, or one that decodes to a
\* surrogate or to a value above 0x10FFFF, handed over whole
OneBadSequence ==
    /\ src = "utf8"
    /\ Len(chunks) = 1
    /\ chunks[1] # << 0 >>
    /\ ~Utf8Scalar(chunks[1])
    /\ WholeInput

\* C6: without flags, whatever the UTF-8 input, the convert call stores only
\* valid code points in a UTF-16 or UTF-32 destination (in UTF-16 every
\* surrogate paired), and stores U+FFFD for a sequence that is malformed or
\* that decodes to a surrogate or to an out-of-range value.
C6_LenientOutputIsValid ==
    (Called(c) /\ ~dstNull /\ src = "utf8" /\ flags = 0 /\ c.term = "ret")
        => /\ WellFormed(dst, c.out)
           /\ (OneBadSequence /\ RoomForAll)
                => c.out = << C89STR_UNICODE_REPLACEMENT_CODE_POINT >>

\* ch is one invalid sequence of the encoding: an octet that cannot start a
\* sequence, a sequence that decodes to a surrogate or to an out-of-range
\* value, a lone low surrogate, a unit that is no code point
InvalidChunk(enc, ch) ==
    /\ ~BomChunk(enc, ch)
    /\ IF enc = "utf8" THEN ch # << 0 >> /\ ~Utf8Scalar(ch)
       ELSE IF enc = "utf16" THEN Len(ch) = 1 /\ ch[1] >= 56320 /\ ch[1] <= 57343
       ELSE Len(ch) = 1 /\ ~Scalar(ch[1])

\* The chunks before the first invalid one
TextBefore(j) == SubSeq(chunks, 1, j - 1)

\* Chunk j is the first invalid sequence: text comes before it, and the
\* input reaches to its end at least
FirstInvalidAt(j) ==
    /\ j \in DOMAIN chunks
    /\ InvalidChunk(src, chunks[j])
    /\ \A k \in 1..(j - 1) : TextChunk(src, chunks[k])
    /\ len = NT \/ len >= Len(Flatten(SubSeq(chunks, 1, j)))

\* r stopped at the invalid chunk j
StoppedAt(r, j) ==
    /\ r.term = "ret"
    /\ r.res = C89STR_ECODEPOINT
    /\ r.processed = Len(Flatten(TextBefore(j)))
    /\ r.outLen = EncodedLen(src, dst, TextBefore(j))

\* C7: with C89STR_ERROR_ON_INVALID_CODE_POINT set and the first invalid
\* sequence of the input at source offset i, the measure call and the
\* convert call return C89STR_ECODEPOINT, report i units processed, and
\* report an output length that counts the code points before offset i only.
C7_StrictStopsAtFirstInvalid ==
    \A j \in 1..MaxChunks :
        (/\ HasFlag(flags, C89STR_ERROR_ON_INVALID_CODE_POINT)
         /\ FirstInvalidAt(j))
            => /\ Called(m) => StoppedAt(m, j)
               /\ (Called(c) /\ RoomForAll) => StoppedAt(c, j)

\* The input is a byte-order mark in the host's order followed by text,
\* handed over whole
BomThenText ==
    /\ Len(chunks) >= 2
    /\ NativeBom(src, chunks[1])
    /\ \A k \in 2..Len(chunks) : TextChunk(src, chunks[k])
    /\ WholeInput

\* The native-endian conversion of the input without its first chunk
WithoutFirstChunk ==
    ConvertCall(hostLE, src, dst, "ne", FALSE, cap, Memory(Flatten(Tail(chunks))),
                IF len = NT THEN NT ELSE len - Len(chunks[1]), flags)

\* C8: with C89STR_FORBID_BOM unset, every convert variant, on a byte-order
\* mark followed by text S (null terminated or with its length) and with
\* room for the whole output, returns the result code and the output units
\* of the conversion of S alone in the byte order the mark denotes: no unit
\* of S is dropped and the mark is not reproduced.
C8_BomIsTransparent ==
    (Called(c) /\ RoomForAll /\ ~HasFlag(flags, C89STR_FORBID_BOM) /\ BomThenText)
        => /\ c.term = "ret"
           /\ c.res = WithoutFirstChunk.res
           /\ c.out = WithoutFirstChunk.out

\* The input begins with a byte-order mark of the source encoding, in either
\* byte order, that lies inside the given length
BomFirst ==
    /\ chunks # << >>
    /\ BomChunk(src, chunks[1])
    /\ len = NT \/ len >= Len(chunks[1])

\* C9: with C89STR_FORBID_BOM set, a measure or convert call on an input that
\* begins with a byte-order mark, whatever the input's length (the mark
\* alone, the mark and one unit), returns C89STR_EBOM with an output length
\* of 0 and stores nothing in the destination.
C9_ForbiddenBomFails ==
    (HasFlag(flags, C89STR_FORBID_BOM) /\ BomFirst)
        => /\ Called(m) => (m.term = "ret" /\ m.res = C89STR_EBOM /\ m.outLen = 0)
           /\ (Called(c) /\ ~dstNull)
                => (c.term = "ret" /\ c.res = C89STR_EBOM /\ c.outLen = 0 /\ Stored(c) = 0)

\* The input is a sequence of valid, non-zero code points in UTF-32, given by
\* its length to the native-endian UTF-32 to UTF-8 conversion without flags
RoundTripInput ==
    /\ src = "utf32" /\ dst = "utf8" /\ variant = "ne"
    /\ flags = 0
    /\ len = Len(body)
    /\ \A k \in DOMAIN body : body[k] # 0 /\ Scalar(body[k])

\* Both destinations have room for the output and the terminator
RoundTripRoom ==
    /\ ~dstNull
    /\ cap > UnitsForAll("utf8", body)
    /\ MaxCap > Len(body)

\* Both conversions succeed and the second one yields the input
RoundTripYieldsInput ==
    /\ Called(c) => (c.term = "ret" /\ c.res = C89STR_SUCCESS)
    /\ pc = "back" => (back.term = "ret" /\ back.res = C89STR_SUCCESS /\ back.out = body)

pairLE == variant = "le"
pairCp == IF pairLE THEN c89str_le2host_32(hostLE, chunks[1][1])
          ELSE c89str_be2host_32(hostLE, chunks[1][1])
ReadInOrder16(u) ==
    IF pairLE THEN c89str_le2host_16(hostLE, u) ELSE c89str_be2host_16(hostLE, u)

\* The well-formed UTF-8 encoding of a code point above U+FFFF
Utf8Of4(cp) ==
    << 240 + (cp \div 262144), 128 + ((cp \div 4096) % 64),
       128 + ((cp \div 64) % 64), 128 + (cp % 64) >>

\* The conversion wrote exactly two units, a high then a low surrogate when
\* read in the byte order asked for
WrotePair ==
    /\ c.term = "ret" /\ c.res = C89STR_SUCCESS
    /\ c.outLen = 2 /\ Len(c.out) = 2
    /\ ReadInOrder16(c.out[1]) >= 55296 /\ ReadInOrder16(c.out[1]) <= 56319
    /\ ReadInOrder16(c.out[2]) >= 56320 /\ ReadInOrder16(c.out[2]) <= 57343

\* C11: for every code point cp in 0x10000..0x10FFFF and each explicit byte
\* order E, on a host of either byte order, converting cp from UTF-32(E) to
\* UTF-16(E) writes exactly two units that read in order E are a high
\* surrogate followed by a low surrogate, and converting those two units
\* with the UTF-16(E) to UTF-32(E) and the UTF-16(E) to UTF-8 functions
\* decodes exactly cp.
C11_SurrogatePairRoundTrip ==
    /\ pc \in { "converted", "back32", "back8" } => WrotePair
    /\ pc = "back32" =>
            (back.term = "ret" /\ back.res = C89STR_SUCCESS /\ back.out = chunks[1])
    /\ pc = "back8" =>
            (back.term = "ret" /\ back.res = C89STR_SUCCESS /\ back.out = Utf8Of4(pairCp))

\* The input does not begin with a byte-order mark of its encoding
NoLeadingBom == chunks = << >> \/ ~BomChunk(src, chunks[1])

\* Two calls ended the same way, with the same result code, output units,
\* output length and processed length
SameOutcome(r1, r2) ==
    /\ r1.term = r2.term
    /\ r1.res = r2.res
    /\ r1.out = r2.out /\ r1.nul = r2.nul
    /\ r1.outLen = r2.outLen
    /\ r1.pset = r2.pset
    /\ r1.pset => r1.processed = r2.processed

\* C12: for every input that does not begin with a byte-order mark, each
\* function that takes the byte order from the BOM (c89str_utf16_to_utf8,
\* c89str_utf16_to_utf32, c89str_utf32_to_utf8, c89str_utf32_to_utf16 and
\* their _len forms) returns the same result code, output units, output
\* length and processed length as the native-endian function of the same
\* direction on the same input.
C12_AutoIsNativeWithoutBom ==
    (variant = "auto" /\ NoLeadingBom) =>
        /\ Called(m) => SameOutcome(m, MeasureCall(hostLE, src, dst, "ne", mem, len, flags))
        /\ Called(c) => SameOutcome(c, ConvertCall(hostLE, src, dst, "ne", dstNull, cap,
                                                   mem, len, flags))

\* The source units up to the end of the input: the explicit length, or the
\* units before the terminator of a null terminated input
SourceLength ==
    IF len = NT
    THEN CHOOSE k \in 0..(Len(mem) - 1) :
            mem[k + 1] = 0 /\ \A j \in 1..k : mem[j] # 0
    ELSE len

Succeeded(r) == r.term = "ret" /\ r.res = C89STR_SUCCESS

\* C13: whenever a measure or convert call returns success, the processed
\* length it reports equals the number of source units consumed from the
\* start of the caller's buffer: the full explicit length n, or the number
\* of units before the terminator of a null terminated input, the units of
\* a consumed leading BOM counted, and never more than n.
C13_ProcessedIsSourceLength ==
    \A r \in { m, c } :
        Succeeded(r) => (r.pset /\ r.processed = SourceLength)

\* C14: whenever a convert call (with a destination) returns success, the
\* output length is below the capacity and the destination unit at index
\* output length is the zero terminator; when the whole content fits but no
\* unit is left for the terminator, the call returns ENOMEM instead of
\* success.
C14_SuccessIsTerminated ==
    (Called(c) /\ ~dstNull) =>
        /\ Succeeded(c) => (c.outLen < cap /\ Len(c.out) = c.outLen /\ c.nul)
        /\ (ValidInput /\ cap = EncodedLen(src, dst, chunks)) =>
                (c.term = "ret" /\ c.res = ENOMEM)

\* The lexer has been initialised
Lexing == pc = "lexing"

\* Call k of c89str_lexer_next returned
Returned(k) == k \in DOMAIN calls /\ calls[k].term = "ret"

\* The token of call k is the end of the input
IsEof(k) == calls[k].lx.token = c89str_token_type("eof")

\* The end of the span of the token returned before call k, the start of the
\* text if there is none
PreviousEnd(k) == IF k = 1 THEN 0 ELSE calls[k - 1].lx.textOff

\* C15: after c89str_lexer_init and any sequence of c89str_lexer_next calls
\* on any source, null terminated or a slice given by its length and
\* followed by other bytes, 0 <= textOff <= textLen, textOff never
\* decreases, and the span of every token returned lies inside the text,
\* ends at the new textOff, and starts at or after the end of the span of
\* the token returned before it.
C15_CursorInvariant ==
    Lexing =>
        /\ 0 <= pLexer.textOff /\ pLexer.textOff <= pLexer.textLen
        /\ \A k \in DOMAIN calls :
            Returned(k) =>
                LET after == calls[k].lx
                IN  /\ calls[k].from <= after.textOff
                    /\ 0 <= after.tokenOff
                    /\ after.tokenOff + after.tokenLen <= after.textLen
                    /\ after.tokenOff + after.tokenLen = after.textOff
                    /\ PreviousEnd(k) <= after.tokenOff

\* C16: from every reachable state of the lexer with textOff < textLen a
\* call of c89str_lexer_next returns with textOff strictly increased, also
\* when it returns an error token and under every setting of the skip
\* options, so that the calls reach the end-of-input token after at most
\* textLen tokens.
C16_LexerProgress ==
    \A k \in DOMAIN calls :
        /\ calls[k].from < pLexer.textLen
                => (calls[k].term = "ret" /\ calls[k].from < calls[k].lx.textOff)
        /\ k > pLexer.textLen => \E j \in 1..k : IsEof(j)

\* The line terminators in the first n bytes of the text: every CR, and
\* every LF that does not follow a CR
RECURSIVE LineTerminators(_, _)
LineTerminators(text, n) ==
    IF n <= 0 THEN 0
    ELSE LineTerminators(text, n - 1)
            + (IF \/ Rd(text, n - 1) = 13
                  \/ Rd(text, n - 1) = 10 /\ (n = 1 \/ Rd(text, n - 2) # 13)
               THEN 1 ELSE 0)

\* C17: after c89str_lexer_init and any sequence of c89str_lexer_next calls,
\* under any skip options, lineNumber is 1 plus the number of line
\* terminators in the consumed prefix of the source, a CR LF counting as
\* one, whether the terminator was a newline token or lies inside a comment
\* or a string; at the end of a source with k LF newlines it is k + 1.
C17_LineCounter ==
    (Lexing /\ \A k \in DOMAIN calls : Returned(k))
        => pLexer.lineNumber = 1 + LineTerminators(pText, pLexer.textOff)

\* C18: once a call of c89str_lexer_next has set the token to the end of the
\* input, every later call sets the token to the end of the input again,
\* with tokenLen 0, and leaves textOff and lineNumber as they were.
C18_EofIsAbsorbing ==
    \A j \in DOMAIN calls : \A k \in DOMAIN calls :
        (j < k /\ Returned(j) /\ IsEof(j))
            => /\ Returned(k)
               /\ IsEof(k)
               /\ calls[k].lx.tokenLen = 0
               /\ calls[k].lx.textOff = calls[j].lx.textOff
               /\ calls[k].lx.lineNumber = calls[j].lx.lineNumber

\* The lexer went through a text of several lines to its end, and was
\* called again after that
C18_EofIsAbsorbingWitness ==
    \E k \in DOMAIN calls :
        /\ k >= 3
        /\ Returned(k - 1) /\ IsEof(k - 1)
        /\ calls[k - 1].lx.lineNumber > 1
        /\ Returned(k)

\* C19: when the cursor equals the length of the text, c89str_lexer_next
\* returns C89STR_END, a value that is neither success nor one of the
\* errors (invalid argument, out of memory, byte-order mark forbidden,
\* invalid code point).
C19_EndOfDataResult ==
    \A k \in DOMAIN calls :
        (Returned(k) /\ calls[k].from = calls[k].lx.textLen)
            => /\ calls[k].result = C89STR_END
               /\ calls[k].result \notin { C89STR_SUCCESS, EINVAL, ENOMEM, C89STR_EBOM,
                                            C89STR_ECODEPOINT }

\* The options with the three skip options off
WithoutSkips(o) ==
    [skipWhitespace |-> FALSE, skipNewlines |-> FALSE, skipComments |-> FALSE,
     allowDashesInIdentifiers |-> o.allowDashesInIdentifiers]

\* The kind of the token is one the options ask to skip
SkippedKind(token) ==
    \/ options.skipWhitespace /\ token = c89str_token_type("whitespace")
    \/ options.skipNewlines /\ token = c89str_token_type("newline")
    \/ options.skipComments /\ token = c89str_token_type("comment")

\* The lexer objects after the calls of c89str_lexer_next made one after
\* the other from lx, up to the call that sets the end of the input, does
\* not return, or leaves the cursor where it was or behind
RECURSIVE LexToEnd(_, _, _)
LexToEnd(text, lx, o) ==
    LET r == c89str_lexer_next(text, lx, o)
    IN  IF \/ r.term # "ret"
           \/ r.lx.token = c89str_token_type("eof")
           \/ r.lx.textOff <= lx.textOff
        THEN << r.lx >>
        ELSE << r.lx >> \o LexToEnd(text, r.lx, o)

\* The kind and the span of the token of a lexer object
KindAndSpan(lx) == << lx.token, lx.tokenOff, lx.tokenLen >>

\* The kinds and spans of the tokens in a sequence of lexer objects, those
\* of a skipped kind left out
RECURSIVE Filtered(_)
Filtered(run) ==
    IF run = << >> THEN << >>
    ELSE IF SkippedKind(Head(run).token) THEN Filtered(Tail(run))
    ELSE << KindAndSpan(Head(run)) >> \o Filtered(Tail(run))

\* The calls made with the options off, from c89str_lexer_init on
Unskipped == LexToEnd(pText, c89str_lexer_init(pText, textLen), WithoutSkips(options))

\* The calls made so far have just reached the end of the input
AtFirstEof ==
    /\ calls # << >>
    /\ \A k \in DOMAIN calls : Returned(k) /\ (IsEof(k) <=> k = Len(calls))

\* C20: under every combination of skipWhitespace, skipNewlines and
\* skipComments, c89str_lexer_next never returns a token of a skipped kind,
\* and the kinds and spans of the tokens it returns up to the end of the
\* input are those returned with the three options off, without the tokens
\* of the skipped kinds, with the same lineNumber at the end.
C20_SkipIsFilter ==
    /\ \A k \in DOMAIN calls : Returned(k) => ~SkippedKind(calls[k].lx.token)
    /\ AtFirstEof
            => /\ [k \in DOMAIN calls |-> KindAndSpan(calls[k].lx)] = Filtered(Unskipped)
               /\ pLexer.lineNumber = Unskipped[Len(Unskipped)].lineNumber

\* The lexer reached the end of a text while skipping: tokens of a skipped
\* kind lie between tokens that were returned
C20_SkipIsFilterWitness ==
    /\ AtFirstEof
    /\ Len(calls) >= 3
    /\ Len(calls) < Len(Unskipped)
    /\ pLexer.lineNumber > 1

\* C21: whenever c89str_lexer_next returns a token whose tag is a code
\* point (a tag of at most 0x10FFFF), tokenLen is 1 and the tag is the value
\* of the byte of the source at the start of the token, also for the token
\* of a quote that opens a string without a closing quote.
C21_SingleCharTag ==
    \A k \in DOMAIN calls :
        (Returned(k) /\ calls[k].lx.token <= C89STR_UNICODE_MAX_CODE_POINT)
            => /\ calls[k].lx.tokenLen = 1
               /\ calls[k].lx.token = Rd(pText, calls[k].lx.tokenOff)

\* The token of the lexer is a string and has been transformed
TransformedString ==
    /\ pc = "transformed"
    /\ pLexer.token \in { c89str_token_type("string_double"),
                          c89str_token_type("string_single") }

\* The span of the token without its two delimiters
StringBody == SubSeq(pText, pLexer.tokenOff + 2, pLexer.tokenOff + pLexer.tokenLen - 1)

\* The character that a backslash followed by ch denotes: r, n, t, f, the
\* two quotes, the backslash, 0
EscapeLetters == { 114, 110, 116, 102, 34, 39, 92, 48 }

Denoted(ch) ==
    IF ch = 114 THEN 13 ELSE IF ch = 110 THEN 10 ELSE IF ch = 116 THEN 9
    ELSE IF ch = 102 THEN 12 ELSE IF ch = 48 THEN 0 ELSE ch

\* The body with every escape sequence replaced by the character it denotes
RECURSIVE Unescaped(_)
Unescaped(bytes) ==
    IF bytes = << >> THEN << >>
    ELSE IF bytes[1] = 92 /\ Len(bytes) >= 2 /\ bytes[2] \in EscapeLetters
    THEN << Denoted(bytes[2]) >> \o Unescaped(Tail(Tail(bytes)))
    ELSE << bytes[1] >> \o Unescaped(Tail(bytes))

\* C22: for a string token c89str_lexer_transform_token returns the span of
\* the token without its two delimiters, with every backslash followed by
\* one of r, n, t, f, a double quote, a single quote, a backslash or 0
\* replaced by the one character it denotes, and with every other byte
\* copied unchanged.
C22_TransformUnescapes ==
    TransformedString
        => /\ pStr.result = C89STR_SUCCESS
           /\ ~pStr.null
           /\ pStr.str = Unescaped(StringBody)

\* The bytes with every escape pair (a backslash followed by a character
\* that c89str_lexer_unescape_string tests for) resolved once, from left to
\* right
RECURSIVE ResolvedOnce(_)
ResolvedOnce(bytes) ==
    IF bytes = << >> THEN << >>
    ELSE IF bytes[1] = 92 /\ Len(bytes) >= 2 /\ Escapable(bytes[2])
    THEN << bytes[2] >> \o ResolvedOnce(Tail(Tail(bytes)))
    ELSE << bytes[1] >> \o ResolvedOnce(Tail(bytes))

\* The escape pairs in the bytes, from left to right
RECURSIVE EscapePairs(_)
EscapePairs(bytes) ==
    IF bytes = << >> THEN 0
    ELSE IF bytes[1] = 92 /\ Len(bytes) >= 2 /\ Escapable(bytes[2])
    THEN 1 + EscapePairs(Tail(Tail(bytes)))
    ELSE EscapePairs(Tail(bytes))

\* C28: unescaping resolves every escape pair exactly once, from left to
\* right: the character exposed by the removal of a backslash is never
\* taken as the start of another escape, so that 2n backslashes in a row
\* become n backslashes, and the transformed length is the length of the
\* body minus the number of escape pairs.
C28_EscapesResolvedOnce ==
    TransformedString
        => /\ pStr.str = ResolvedOnce(StringBody)
           /\ Len(pStr.str) = Len(StringBody) - EscapePairs(StringBody)

\* The token of the lexer object starts with 0x or 0X and a hex digit
StartsHex(lx) ==
    /\ lx.tokenOff + 2 < lx.textLen
    /\ Rd(pText, lx.tokenOff + 2) \in HexDigits
    /\ Rd(pText, lx.tokenOff) = 48
    /\ Rd(pText, lx.tokenOff + 1) \in { 120, 88 }

\* A '.' or a 'p' or 'P' follows the hex digits after the 0x of the token
HexFloatFollows(lx) ==
    LET digitsEnd == SkipDigits(pText, lx.tokenOff + 2, lx.textLen, HexDigits)
    IN  digitsEnd < lx.textLen /\ Rd(pText, digitsEnd) \in { 46, 112, 80 }

\* C25: a literal that starts with 0x or 0X followed by hex digits only, with
\* no '.' and no 'p' or 'P' after them, is returned with the tag
\* integer_literal_hex; the tag float_literal_hex is returned only when a
\* '.' or a 'p' or 'P' follows the hex digits.
C25_HexIntegerTag ==
    \A k \in DOMAIN calls :
        Returned(k) =>
            /\ (StartsHex(calls[k].lx) /\ ~HexFloatFollows(calls[k].lx))
                    => calls[k].lx.token = c89str_token_type("integer_literal_hex")
            /\ calls[k].lx.token = c89str_token_type("float_literal_hex")
                    => HexFloatFollows(calls[k].lx)

\* The offset of the exponent marker of the literal at p, were there one:
\* after the digits and the optional '.' and digits that follow the prefix
MarkerOff(p, prefix, tlen, digits) ==
    LET a == SkipDigits(pText, p + prefix, tlen, digits)
    IN  IF a < tlen /\ Rd(pText, a) = 46 THEN SkipDigits(pText, a + 1, tlen, digits) ELSE a

\* The offset after the exponent marker at b and its optional sign
SignEnd(b, tlen) ==
    IF b + 1 < tlen /\ Rd(pText, b + 1) \in { 43, 45 } THEN b + 2 ELSE b + 1

\* The text of tlen bytes has at p a decimal literal (digits, markers e E) or
\* a hex literal (prefix 0x, hex digits, markers p P) whose exponent marker
\* and sign are not followed by a digit of the text
BrokenExponent(p, tlen, prefix, digits, markers) ==
    LET b == MarkerOff(p, prefix, tlen, digits)
        e == SignEnd(b, tlen)
    IN  /\ b < tlen /\ Rd(pText, b) \in markers
        /\ ~(e < tlen /\ Rd(pText, e) \in digits)

\* The offset after the broken exponent of the literal at p, or -1
BrokenLiteralEnd(p, tlen) ==
    IF p < tlen /\ Rd(pText, p) \in 49..57
            /\ BrokenExponent(p, tlen, 1, DecDigits, { 101, 69 })
    THEN SignEnd(MarkerOff(p, 1, tlen, DecDigits), tlen)
    ELSE IF p + 1 < tlen /\ Rd(pText, p) = 48 /\ Rd(pText, p + 1) \in { 120, 88 }
            /\ BrokenExponent(p, tlen, 2, HexDigits, { 112, 80 })
    THEN SignEnd(MarkerOff(p, 2, tlen, HexDigits), tlen)
    ELSE -1

\* C26: when the text has at the cursor a decimal or hex literal whose
\* exponent marker (e E, p P, with an optional sign) is not followed by a
\* digit, c89str_lexer_next returns EINVAL with the token set to Error, the
\* token spans the bytes from the first byte of the literal through the
\* marker and the sign, and the cursor is left at the first byte after it.
C26_BrokenExponentIsError ==
    \A k \in DOMAIN calls :
        LET e == BrokenLiteralEnd(calls[k].from, calls[k].lx.textLen)
        IN  e # -1 =>
                /\ calls[k].term = "ret"
                /\ calls[k].result = EINVAL
                /\ calls[k].lx.token = c89str_token_type("error")
                /\ calls[k].lx.tokenOff = calls[k].from
                /\ calls[k].lx.tokenLen = e - calls[k].from
                /\ calls[k].lx.textOff = e

\* The UTF-8 encodings of the white space code points of more than one byte:
\* U+0085, U+00A0, U+1680, U+2000..U+200A, U+2028, U+2029, U+202F, U+205F,
\* U+3000
WideSpaces ==
    { << 194, 133 >>, << 194, 160 >>, << 225, 154, 128 >>, << 226, 128, 168 >>,
      << 226, 128, 169 >>, << 226, 128, 175 >>, << 226, 129, 159 >>, << 227, 128, 128 >> }
        \cup { << 226, 128, b >> : b \in 128..138 }

\* The number of bytes of the wide white space code point that the text of
\* tlen bytes has at q, or 0
WideSpaceAt(q, tlen) ==
    IF \E w \in WideSpaces :
            q + Len(w) <= tlen /\ \A i \in 1..Len(w) : Rd(pText, q + (i - 1)) = w[i]
    THEN Len(CHOOSE w \in WideSpaces :
            q + Len(w) <= tlen /\ \A i \in 1..Len(w) : Rd(pText, q + (i - 1)) = w[i])
    ELSE 0

\* The offset x lies strictly inside a wide white space code point
InsideWideSpace(x, tlen) ==
    \E q \in 0..tlen : q < x /\ x < q + WideSpaceAt(q, tlen)

\* The bytes from..to of the text are complete white space code points
RECURSIVE WholeSpaces(_, _, _)
WholeSpaces(from, to, tlen) ==
    IF from = to THEN TRUE
    ELSE IF from > to THEN FALSE
    ELSE IF Rd(pText, from) \in (9..13) \cup { 32 } THEN WholeSpaces(from + 1, to, tlen)
    ELSE IF WideSpaceAt(from, tlen) > 0
    THEN WholeSpaces(from + WideSpaceAt(from, tlen), to, tlen)
    ELSE FALSE

\* C27: the lexer never splits a white space code point of several bytes: no
\* token starts or ends strictly inside its encoding, no Identifier token
\* contains bytes of one, and every Whitespace token consists of complete
\* white space code points only.
C27_WideSpacesKeptWhole ==
    \A k \in DOMAIN calls :
        Returned(k) =>
            LET lx == calls[k].lx
                tlen == lx.textLen
                tokenEnd == lx.tokenOff + lx.tokenLen
            IN  /\ ~InsideWideSpace(lx.tokenOff, tlen)
                /\ ~InsideWideSpace(tokenEnd, tlen)
                /\ lx.token = c89str_token_type("identifier") =>
                        \A q \in 0..tlen :
                            WideSpaceAt(q, tlen) > 0 =>
                                q + WideSpaceAt(q, tlen) <= lx.tokenOff \/ tokenEnd <= q
                /\ lx.token = c89str_token_type("whitespace") =>
                        WholeSpaces(lx.tokenOff, tokenEnd, tlen)

\* The number of bytes of the line terminator that the buffer of n bytes
\* has at q (LF, VT, FF, CR, U+0085, U+2028, U+2029), or 0
NewlineAt(q, n) ==
    IF q < n /\ Rd(pText, q) \in 10..13 THEN 1
    ELSE IF q + 2 <= n /\ Rd(pText, q) = 194 /\ Rd(pText, q + 1) = 133 THEN 2
    ELSE IF /\ q + 3 <= n /\ Rd(pText, q) = 226 /\ Rd(pText, q + 1) = 128
            /\ Rd(pText, q + 2) \in { 168, 169 } THEN 3
    ELSE 0

\* The offset just past the line terminator at q: past both bytes of a CR
\* that is followed by LF inside the n bytes
PastNewline(q, n) ==
    IF Rd(pText, q) = 13 /\ q + 1 < n /\ Rd(pText, q + 1) = 10
    THEN q + 2
    ELSE q + NewlineAt(q, n)

\* C23: on a buffer given by its length n, when the buffer holds a line
\* terminator c89str_utf8_find_next_line stores the offset of the first one as
\* the length of this line and returns the offset just past it (past both
\* bytes of CR LF inside the n bytes), never more than n; when it holds
\* none, the length of this line and the value returned are both n.
C23_NextLineOfBuffer ==
    (ret.fn = "c89str_utf8_find_next_line" /\ textLen # NT) =>
        LET n == textLen
            terminators == { q \in 0..(n - 1) : NewlineAt(q, n) > 0 }
            first == CHOOSE q \in terminators : \A x \in terminators : q <= x
        IN  /\ ~ret.line.asserted
            /\ IF terminators # { }
               THEN /\ ret.line.thisLen = first
                    /\ ret.line.nextBeg = PastNewline(first, n)
                    /\ ret.line.nextBeg <= n
               ELSE /\ ret.line.thisLen = n
                    /\ ret.line.nextBeg = n

\* C24: c89str_utf8_is_null_or_whitespace returns true exactly when every
\* code point encoded in the first textLen bytes of the buffer, or in the
\* bytes before the terminator when the buffer is null-terminated, is a
\* white space code point.
C24_WhitespaceOfBuffer ==
    ret.fn = "c89str_utf8_is_null_or_whitespace" =>
        LET n == IF textLen = NT THEN c89str_strlen(pText, 0) ELSE textLen
        IN  ret.value = WholeSpaces(0, n, n)

\* The unit u with its bytes in the opposite order
SwappedUnit(u) ==
    IF src = "utf16" THEN c89str_swap_endian_uint16(u) ELSE c89str_swap_endian_uint32(u)

\* The index of the first zero unit of the memory
FirstZeroUnit == CHOOSE z \in 0..Len(mem) : Rd(mem, z) = 0 /\ \A i \in 0..(z - 1) : Rd(mem, i) # 0

\* C29: called with a count, c89str_utf16_swap_endian and
\* c89str_utf32_swap_endian byte-swap the units p[0..count), zero units
\* among them, and leave every unit from index count on as it was; called
\* with (size_t)-1 they swap the units before the first zero unit and stop.
C29_SwapEndianFrame ==
    ret.fn \in { "c89str_utf16_swap_endian", "c89str_utf32_swap_endian" } =>
        LET end == IF len = NT THEN FirstZeroUnit ELSE len
        IN  /\ ret.swapped.term = "ret"
            /\ Len(ret.swapped.units) = Len(mem)
            /\ \A i \in 0..(Len(mem) - 1) :
                    Rd(ret.swapped.units, i) =
                        IF i < end THEN SwappedUnit(Rd(mem, i)) ELSE Rd(mem, i)

\* The segments that c89str_path_first and c89str_path_next visit on the
\* path, in order, each as its offset and length; it is the iterator after
\* the call that returned r
RECURSIVE ForwardSegments(_, _)
ForwardSegments(r, n) ==
    IF r.result # C89STR_SUCCESS \/ n = 0 THEN << >>
    ELSE << << r.it.segmentOffset, r.it.segmentLength >> >>
             \o ForwardSegments(c89str_path_next(pText, r.it), n - 1)

Reverse(seq) == [i \in 1..Len(seq) |-> seq[Len(seq) + 1 - i]]

\* C30: on a non-empty path every call of c89str_path_last and
\* c89str_path_prev returns, with C89STR_SUCCESS or C89STR_END, and the
\* calls that return C89STR_SUCCESS visit the segments of the path in the
\* reverse of the order of c89str_path_first and c89str_path_next, after
\* which the next call returns C89STR_END.
C30_BackwardIterationEnds ==
    (pc = "backwards" /\ Rd(pText, 0) # 0) =>
        LET forward == ForwardSegments(c89str_path_first(pText, textLen), MaxPathLen + 1)
            backward == Reverse(forward)
        IN  \A k \in DOMAIN calls :
                /\ calls[k].term = "ret"
                /\ calls[k].result \in { C89STR_SUCCESS, C89STR_END }
                /\ calls[k].result = C89STR_SUCCESS =>
                        /\ k <= Len(backward)
                        /\ << calls[k].it.segmentOffset, calls[k].it.segmentLength >>
                               = backward[k]
                /\ calls[k].result = C89STR_END => k = Len(backward) + 1

====
